---- MODULE Spec2Model ----
(***************************************************************************)
(* Model of the content-manager reconcilers of english-connections-core:   *)
(* runUploadScript (scripts/upload.ts), runPromoteScript                   *)
(* (scripts/promote.ts), listRemoteKeys (scripts/s3.ts) and the loader     *)
(* runValidateScript (scripts/validate.ts), run against an object store    *)
(* with two buckets.                                                       *)
(*                                                                         *)
(* Every client.send is a request appended to `sent` (what the tests'      *)
(* MockS3Client records); the step that follows it is the arrival of the   *)
(* response, after which the script runs to its next await.  Strings are   *)
(* modelled by small integers that keep their order: a file's base name    *)
(* and a date are integers, a key is a prefix together with a base name.   *)
(* The generatedAt timestamp of the manifest and the console output are    *)
(* left out; listing requests are always answered, writes may be rejected. *)
(***************************************************************************)
EXTENDS Integers, Sequences, FiniteSets, TLC

\* ------------------------------------------------------------------ bounds
MaxName == 2
MaxFiles == 2
MaxRuns == 3
PageSize == 1
MaxEntries == 3
MaxPages == 3
MaxPageLen == 2
MaxCategories == 5

\* --------------------------------------------------------------- constants
REGION == "sa-east-1"
BUCKETS == [dev |-> "econn-content-dev", prod |-> "econn-content-prod"]
PUZZLE_PREFIX == "puzzles/"
MANIFEST_KEY == [prefix |-> "", name |-> 0]
PUZZLES_DIR == "src/puzzles"
TESTING_DIR == "src/testing/puzzles"

ContentEnv == {"dev", "prod"}
Buckets == {BUCKETS[e] : e \in ContentEnv}

\* `${PUZZLE_PREFIX}${path.basename(filePath)}`
PuzzleKey(base) == [prefix |-> PUZZLE_PREFIX, name |-> base]
PuzzleKeys == {PuzzleKey(n) : n \in 1..MaxName}
AllKeys == PuzzleKeys \cup {MANIFEST_KEY}

NoObject == [kind |-> "NoSuchKey"]

\* an entry of Contents that has no Key
NoKey == [kind |-> "NoKey"]

Range(s) == {s[i] : i \in 1..Len(s)}

\* ------------------------------------------------------------- JSON values
\* What JSON.parse can return, and undefined for a property that is absent.
\* A string is a TLA+ string; an object keeps its properties in insertion
\* order, as Object.keys lists them.
Undefined == [t |-> "undefined"]
Null == [t |-> "null"]
Bool(b) == [t |-> "boolean", b |-> b]
Num(n) == [t |-> "number", n |-> n]
Str(s) == [t |-> "string", s |-> s]
Arr(items) == [t |-> "array", items |-> items]
Prop(key, value) == [key |-> key, value |-> value]
Obj(entries) == [t |-> "object", entries |-> entries]

\* value[key]: undefined when the value has no such property
Get(value, key) ==
  IF value.t = "object" /\ \E i \in 1..Len(value.entries) : value.entries[i].key = key
    THEN value.entries[CHOOSE i \in 1..Len(value.entries) :
                         value.entries[i].key = key].value
    ELSE Undefined

\* Object.keys(value)
ObjectKeys(value) ==
  IF value.t = "object" THEN [i \in 1..Len(value.entries) |-> value.entries[i].key]
  ELSE IF value.t = "array" THEN [i \in 1..Len(value.items) |-> ToString(i - 1)]
  ELSE << >>

CharAt(s, i) == SubSeq(s, i, i)

\* String.prototype.trim, for strings whose only white space is the space
RECURSIVE TrimStart(_)
TrimStart(s) ==
  IF Len(s) > 0 /\ CharAt(s, 1) = " " THEN TrimStart(SubSeq(s, 2, Len(s))) ELSE s

RECURSIVE TrimEnd(_)
TrimEnd(s) ==
  IF Len(s) > 0 /\ CharAt(s, Len(s)) = " " THEN TrimEnd(SubSeq(s, 1, Len(s) - 1))
  ELSE s

Trim(s) == TrimEnd(TrimStart(s))

LowerLetters == "abcdefghijklmnopqrstuvwxyz"
UpperLetters == "ABCDEFGHIJKLMNOPQRSTUVWXYZ"

UpperChar(c) ==
  LET at == {i \in 1..Len(LowerLetters) : CharAt(LowerLetters, i) = c}
  IN IF at = {} THEN c ELSE CharAt(UpperLetters, CHOOSE i \in at : TRUE)

\* String.prototype.toUpperCase, for ASCII letters
RECURSIVE toUpperCase(_)
toUpperCase(s) ==
  IF Len(s) = 0 THEN ""
  ELSE UpperChar(CharAt(s, 1)) \o toUpperCase(SubSeq(s, 2, Len(s)))

IsDigit(c) == \E i \in 1..10 : CharAt("0123456789", i) = c

\* Array.prototype.join
RECURSIVE Join(_, _)
Join(strings, separator) ==
  IF strings = << >> THEN ""
  ELSE IF Len(strings) = 1 THEN strings[1]
  ELSE strings[1] \o separator \o Join(Tail(strings), separator)

\* --------------------------------------------------------- schema validator
ROOT_FIELDS == {"date", "categories", "startGrid"}

\* a Set, iterated in insertion order
CATEGORY_COLORS == << "yellow", "green", "blue", "purple" >>

\* /^\d{4}-\d{2}-\d{2}$/u.test(value)
DATE_REGEX(value) ==
  /\ Len(value) = 10
  /\ \A i \in {1, 2, 3, 4, 6, 7, 9, 10} : IsDigit(CharAt(value, i))
  /\ CharAt(value, 5) = "-"
  /\ CharAt(value, 8) = "-"

\* typeof value === "object" stands for every object, null and arrays included
isRecord_TypeofObject(value) == value.t \in {"object", "array", "null"}

isRecord(value) == value.t = "object"

isNonEmptyString(value) == value.t = "string" /\ Len(Trim(value.s)) > 0

\* the parts of a field path: property names and array indexes
Name(s) == [part |-> "string", name |-> s]
Index(n) == [part |-> "number", index |-> n]

RECURSIVE FieldPathFrom(_, _)
FieldPathFrom(parts, i) ==
  IF i > Len(parts) THEN ""
  ELSE (IF parts[i].part = "number" THEN "[" \o ToString(parts[i].index) \o "]"
        ELSE IF i = 1 THEN parts[i].name
        ELSE "." \o parts[i].name)
       \o FieldPathFrom(parts, i + 1)

fieldPath(parts) == FieldPathFrom(parts, 1)

Issue(field, message) == [field |-> field, message |-> message]

validateRootKeys(puzzle) ==
  LET unexpected == SelectSeq(ObjectKeys(puzzle), LAMBDA key : key \notin ROOT_FIELDS)
  IN [i \in 1..Len(unexpected) |-> Issue(unexpected[i], "Unexpected property.")]

\* the callback of value.forEach in validateStartingOrder
StartingOrderEntry(acc, entry, index) ==
  LET field == fieldPath(<< Name("startGrid"), Index(index) >>)
  IN IF entry.t # "string"
       THEN [acc EXCEPT !.issues =
               Append(@, Issue(field, "Entries in startGrid must be strings."))]
     ELSE LET trimmed == Trim(entry.s)
          IN IF Len(trimmed) = 0
               THEN [acc EXCEPT !.issues =
                       Append(@, Issue(field, "startGrid entries cannot be empty."))]
             ELSE LET whitespace ==
                        IF trimmed # entry.s
                          THEN << Issue(field,
                                 "startGrid entries should not have leading or trailing whitespace.") >>
                          ELSE << >>
                      uppercase ==
                        IF trimmed # toUpperCase(trimmed)
                          THEN << Issue(field,
                                 "Word '" \o trimmed \o "' should be uppercase.") >>
                          ELSE << >>
                      duplicate ==
                        IF trimmed \in Range(acc.seen)
                          THEN << Issue(field,
                                 "Duplicate word '" \o trimmed \o "' in startGrid.") >>
                          ELSE << >>
                  IN [issues |-> acc.issues \o whitespace \o uppercase \o duplicate,
                      seen |-> IF trimmed \in Range(acc.seen) THEN acc.seen
                               ELSE Append(acc.seen, trimmed)]

\* the words are also required at the positions the categories give them
MissingWords_SamePosition(expectedWords, seen) ==
  SelectSeq(expectedWords, LAMBDA word :
    \/ word \notin Range(seen)
    \/ \E i \in 1..Len(expectedWords) :
         expectedWords[i] = word /\ (i > Len(seen) \/ seen[i] # word))

\* no word is ever found missing
MissingWords_None(expectedWords, seen) == << >>

\* [...expectedWords].filter((word) => !seen.has(word))
MissingWords(expectedWords, seen) ==
  SelectSeq(expectedWords, LAMBDA word : word \notin Range(seen))

RECURSIVE StartingOrderEntries(_, _, _)
StartingOrderEntries(acc, items, i) ==
  IF i > Len(items) THEN acc
  ELSE StartingOrderEntries(StartingOrderEntry(acc, items[i], i - 1), items, i + 1)

\* expectedWords is a Set: a list without repeats, in insertion order
validateStartingOrder(value, expectedWords) ==
  LET field == "startGrid"
  IN IF value = Undefined
       THEN << Issue(field, "Missing 'startGrid'. Expected an array of 16 words.") >>
     ELSE IF value.t # "array"
       THEN << Issue(field, "startGrid must be an array of strings.") >>
     ELSE
       LET acc == StartingOrderEntries([issues |-> << >>, seen |-> << >>],
                                       value.items, 1)
           seen == acc.seen
           size ==
             IF Len(expectedWords) > 0 /\ Len(seen) # Len(expectedWords)
               THEN << Issue(field,
                         "startGrid should list " \o ToString(Len(expectedWords))
                           \o " unique words; found " \o ToString(Len(seen)) \o ".") >>
               ELSE << >>
           missing == MissingWords(expectedWords, seen)
           missingIssue ==
             IF Len(expectedWords) > 0 /\ Len(missing) > 0
               THEN << Issue(field,
                         "startGrid is missing words: " \o Join(missing, ", ") \o ".") >>
               ELSE << >>
           extras == SelectSeq(seen, LAMBDA word :
                       Len(expectedWords) > 0 /\ word \notin Range(expectedWords))
           extrasIssue ==
             IF Len(extras) > 0
               THEN << Issue(field,
                         "startGrid includes words that are not in any category: "
                           \o Join(extras, ", ") \o ".") >>
               ELSE << >>
       IN acc.issues \o size \o missingIssue \o extrasIssue

\* the callback of value.forEach in validateCategoryWords; seenWords is a Map
\* from word to category index, globalWords a Set in insertion order
CategoryWord(acc, word, categoryIndex, wordIndex) ==
  LET field == fieldPath(<< Name("categories"), Index(categoryIndex),
                            Name("words"), Index(wordIndex) >>)
  IN IF word.t # "string"
       THEN [acc EXCEPT !.issues = Append(@, Issue(field, "Each word must be a string."))]
     ELSE LET trimmed == Trim(word.s)
          IN IF Len(trimmed) = 0
               THEN [acc EXCEPT !.issues = Append(@, Issue(field, "Word cannot be empty."))]
             ELSE LET whitespace ==
                        IF trimmed # word.s
                          THEN << Issue(field,
                                 "Word should not contain leading or trailing whitespace.") >>
                          ELSE << >>
                      uppercase ==
                        IF trimmed # toUpperCase(trimmed)
                          THEN << Issue(field,
                                 "Word '" \o trimmed \o "' should be uppercase.") >>
                          ELSE << >>
                      local ==
                        IF trimmed \in acc.localWords
                          THEN << Issue(field,
                                 "Duplicate word '" \o trimmed \o "' within category.") >>
                          ELSE << >>
                      assigned ==
                        /\ trimmed \in DOMAIN acc.seenWords
                        /\ acc.seenWords[trimmed] # categoryIndex
                      existing ==
                        IF assigned
                          THEN << Issue(field,
                                 "Word '" \o trimmed \o "' already assigned to category index "
                                   \o ToString(acc.seenWords[trimmed]) \o ".") >>
                          ELSE << >>
                  IN [issues |-> acc.issues \o whitespace \o uppercase \o local \o existing,
                      localWords |-> acc.localWords \cup {trimmed},
                      seenWords |-> IF assigned THEN acc.seenWords
                                    ELSE (trimmed :> categoryIndex) @@ acc.seenWords,
                      globalWords |-> IF trimmed \in Range(acc.globalWords)
                                        THEN acc.globalWords
                                        ELSE Append(acc.globalWords, trimmed)]

RECURSIVE CategoryWords(_, _, _, _)
CategoryWords(acc, items, categoryIndex, j) ==
  IF j > Len(items) THEN acc
  ELSE CategoryWords(CategoryWord(acc, items[j], categoryIndex, j - 1),
                     items, categoryIndex, j + 1)

\* returns the issues together with the two collections it has updated
validateCategoryWords(value, categoryIndex, seenWords, globalWords) ==
  LET field == fieldPath(<< Name("categories"), Index(categoryIndex), Name("words") >>)
  IN IF value.t # "array"
       THEN [issues |-> << Issue(field, "Category words must be an array of strings.") >>,
             seenWords |-> seenWords, globalWords |-> globalWords]
     ELSE IF Len(value.items) # 4
       THEN [issues |-> << Issue(field,
                             "Each category must supply exactly 4 words (received "
                               \o ToString(Len(value.items)) \o ").") >>,
             seenWords |-> seenWords, globalWords |-> globalWords]
     ELSE LET acc == CategoryWords([issues |-> << >>, localWords |-> {},
                                    seenWords |-> seenWords,
                                    globalWords |-> globalWords],
                                   value.items, categoryIndex, 1)
          IN [issues |-> acc.issues, seenWords |-> acc.seenWords,
              globalWords |-> acc.globalWords]

\* the issue, or none
validateCategoryColor(value, index) ==
  IF value.t # "string" \/ value.s \notin Range(CATEGORY_COLORS)
    THEN << Issue(fieldPath(<< Name("categories"), Index(index), Name("color") >>),
                  "Color must be one of " \o Join(CATEGORY_COLORS, ", ") \o ".") >>
    ELSE << >>

\* an id that was seen before is accepted again
validateCategoryId_AcceptsSeenId(value, index, seen) ==
  LET field == fieldPath(<< Name("categories"), Index(index), Name("id") >>)
  IN IF ~isNonEmptyString(value)
       THEN [issue |-> << Issue(field, "Category id must be a non-empty string.") >>,
             seen |-> seen]
     ELSE [issue |-> << >>, seen |-> seen \cup {value.s}]

\* the issue, or none, together with the ids seen
validateCategoryId(value, index, seen) ==
  LET field == fieldPath(<< Name("categories"), Index(index), Name("id") >>)
  IN IF ~isNonEmptyString(value)
       THEN [issue |-> << Issue(field, "Category id must be a non-empty string.") >>,
             seen |-> seen]
     ELSE IF value.s \in seen
       THEN [issue |-> << Issue(field, "Duplicate category id '" \o value.s \o "'.") >>,
             seen |-> seen]
     ELSE [issue |-> << >>, seen |-> seen \cup {value.s}]

\* colorCounts.get(color) ?? 0
ColorCount(colorCounts, color) ==
  IF color \in DOMAIN colorCounts THEN colorCounts[color] ELSE 0

\* the callback of value.forEach in validateCategories
Category(acc, category, categoryIndex) ==
  IF ~isRecord(category)
    THEN [acc EXCEPT !.issues =
            Append(@, Issue(fieldPath(<< Name("categories"), Index(categoryIndex) >>),
                            "Each category must be an object."))]
  ELSE
    LET idResult == validateCategoryId(Get(category, "id"), categoryIndex, acc.seenIds)
        titleIssue ==
          IF ~isNonEmptyString(Get(category, "title"))
            THEN << Issue(fieldPath(<< Name("categories"), Index(categoryIndex),
                                       Name("title") >>),
                          "Category title must be a non-empty string.") >>
            ELSE << >>
        color == Get(category, "color")
        colorIssue == validateCategoryColor(color, categoryIndex)
        wordsResult == validateCategoryWords(Get(category, "words"), categoryIndex,
                                             acc.seenWords, acc.words)
    IN [issues |-> acc.issues \o idResult.issue \o titleIssue \o colorIssue
                     \o wordsResult.issues,
        seenIds |-> idResult.seen,
        seenWords |-> wordsResult.seenWords,
        colorCounts |-> IF colorIssue = << >> /\ color.t = "string"
                          THEN (color.s :> (ColorCount(acc.colorCounts, color.s) + 1))
                                 @@ acc.colorCounts
                          ELSE acc.colorCounts,
        words |-> wordsResult.globalWords]

RECURSIVE Categories(_, _, _)
Categories(acc, items, i) ==
  IF i > Len(items) THEN acc
  ELSE Categories(Category(acc, items[i], i - 1), items, i + 1)

\* the color-count issues lack the colors that no category has
ColorCountIssues_SeenColorsOnly(colorCounts) ==
  LET wrong == SelectSeq(CATEGORY_COLORS, LAMBDA color :
                 color \in DOMAIN colorCounts /\ colorCounts[color] # 1)
  IN [i \in 1..Len(wrong) |->
        Issue("categories",
              "Expected exactly one '" \o wrong[i] \o "' category; found "
                \o ToString(ColorCount(colorCounts, wrong[i])) \o ".")]

\* for (const color of CATEGORY_COLORS): one issue per color whose count is not 1
ColorCountIssues(colorCounts) ==
  LET wrong == SelectSeq(CATEGORY_COLORS, LAMBDA color :
                 ColorCount(colorCounts, color) # 1)
  IN [i \in 1..Len(wrong) |->
        Issue("categories",
              "Expected exactly one '" \o wrong[i] \o "' category; found "
                \o ToString(ColorCount(colorCounts, wrong[i])) \o ".")]

\* returns the issues and the words collected
validateCategories(value) ==
  IF value.t # "array"
    THEN [issues |-> << Issue("categories",
                          "Expected 'categories' to be an array of category definitions.") >>,
          words |-> << >>]
  ELSE
    LET count ==
          IF Len(value.items) # 4
            THEN << Issue("categories",
                      "Expected exactly 4 categories, received "
                        \o ToString(Len(value.items)) \o ".") >>
            ELSE << >>
        acc == Categories([issues |-> count, seenIds |-> {},
                           seenWords |-> [w \in {} |-> 0],
                           colorCounts |-> [c \in {} |-> 0],
                           words |-> << >>],
                          value.items, 1)
        unique ==
          IF Len(acc.words) # 16
            THEN << Issue("categories",
                      "Categories should define 16 unique words; found "
                        \o ToString(Len(acc.words)) \o ".") >>
            ELSE << >>
    IN [issues |-> acc.issues \o unique \o ColorCountIssues(acc.colorCounts),
        words |-> acc.words]

\* context.expectedDate is optional: << >> when absent
validateDate(value, context) ==
  IF value.t # "string"
    THEN << Issue("date", "Expected 'date' to be a string in YYYY-MM-DD format.") >>
  ELSE IF ~DATE_REGEX(value.s)
    THEN << Issue("date", "Date must follow YYYY-MM-DD (e.g., 2024-01-01).") >>
  ELSE IF /\ context.expectedDate # << >>
          /\ context.expectedDate[1] # ""
          /\ context.expectedDate[1] # value.s
    THEN << Issue("date", "Date (" \o value.s \o ") does not match filename ("
                            \o context.expectedDate[1] \o ").") >>
  ELSE << >>

\* the later sections are skipped when the date has an issue
validatePuzzle_StopsAtDate(rawPuzzle_, context_) ==
  IF ~isRecord(rawPuzzle_)
    THEN << Issue("", "Puzzle must be an object.") >>
  ELSE IF validateDate(Get(rawPuzzle_, "date"), context_) # << >>
    THEN validateDate(Get(rawPuzzle_, "date"), context_)
  ELSE
    LET categoryResult == validateCategories(Get(rawPuzzle_, "categories"))
    IN categoryResult.issues
         \o validateStartingOrder(Get(rawPuzzle_, "startGrid"), categoryResult.words)
         \o validateRootKeys(rawPuzzle_)

validatePuzzle(rawPuzzle_, context_) ==
  IF ~isRecord(rawPuzzle_)
    THEN << Issue("", "Puzzle must be an object.") >>
  ELSE
    LET categoryResult == validateCategories(Get(rawPuzzle_, "categories"))
    IN validateDate(Get(rawPuzzle_, "date"), context_)
         \o categoryResult.issues
         \o validateStartingOrder(Get(rawPuzzle_, "startGrid"), categoryResult.words)
         \o validateRootKeys(rawPuzzle_)

\* ---------------------------------------------------------------- file names
\* the last place of the character in the text, 0 when it has none
LastIndexOf(text, c) ==
  LET at == {i \in 1..Len(text) : CharAt(text, i) = c}
  IN IF at = {} THEN 0 ELSE CHOOSE i \in at : \A j \in at : j <= i

\* path.basename(filePath)
LastPart(filePath) == SubSeq(filePath, LastIndexOf(filePath, "/") + 1, Len(filePath))

\* path.extname(filePath): from the last dot of the last part, unless that dot
\* is its first character
extname(filePath) ==
  LET dot == LastIndexOf(LastPart(filePath), ".")
  IN IF dot <= 1 THEN ""
     ELSE SubSeq(LastPart(filePath), dot, Len(LastPart(filePath)))

EndsWith(text, suffix) ==
  /\ Len(text) >= Len(suffix)
  /\ SubSeq(text, Len(text) - Len(suffix) + 1, Len(text)) = suffix

\* path.basename(filePath, ext)
basename(filePath, ext) ==
  IF Len(ext) > 0 /\ Len(LastPart(filePath)) > Len(ext) /\ EndsWith(LastPart(filePath), ext)
    THEN SubSeq(LastPart(filePath), 1, Len(LastPart(filePath)) - Len(ext))
    ELSE LastPart(filePath)

\* the pattern is looked for at the start of the name only
match_AtStart(name) ==
  IF Len(name) >= 10 /\ DATE_REGEX(SubSeq(name, 1, 10))
    THEN << SubSeq(name, 1, 10) >>
    ELSE << >>

\* name.match(/\d{4}-\d{2}-\d{2}/u)?.[0]: the leftmost match, none when there is
\* no match
match(name) ==
  LET at == {i \in 1..Len(name) : i + 9 <= Len(name) /\ DATE_REGEX(SubSeq(name, i, i + 9))}
  IN IF at = {} THEN << >>
     ELSE << SubSeq(name, CHOOSE i \in at : \A j \in at : i <= j,
                    (CHOOSE i \in at : \A j \in at : i <= j) + 9) >>

\* deriveDateFromFileName(filePath), on the text of the path
deriveDate(filePath) == match(basename(filePath, extname(filePath)))

\* ------------------------------------------------------------- local files
\* The canonical puzzle directory holds one valid document per base name;
\* the testing directory holds an edited revision of the first puzzle under
\* the same base name and the broken fixture, whose date field differs from
\* the date of its file name.
BROKEN_FIXTURE == [dir |-> TESTING_DIR, base |-> 2]
LocalFiles ==
  [dir : {PUZZLES_DIR}, base : 1..MaxName] \cup [dir : {TESTING_DIR}, base : 1..2]

\* fs.readFileSync(filePath, "utf8"): the text of the document
ReadFile(f) ==
  [date |-> IF f = BROKEN_FIXTURE THEN f.base + MaxName ELSE f.base, rev |-> f.dir]

deriveDateFromFileName(f) == f.base

validateFile(f) ==
  IF ReadFile(f).date # deriveDateFromFileName(f)
    THEN << [field |-> "date", message |-> "date does not match file name"] >>
    ELSE << >>

RECURSIVE FlatMapIssues(_)
FlatMapIssues(files) ==
  IF files = << >> THEN << >>
  ELSE [i \in 1..Len(validateFile(Head(files))) |->
          [file |-> Head(files),
           field |-> validateFile(Head(files))[i].field,
           message |-> validateFile(Head(files))[i].message]]
       \o FlatMapIssues(Tail(files))

\* listPuzzleFiles(PUZZLES_DIR): the directory's files, sorted; the directory
\* may be empty
PuzzleDirListings ==
  { [i \in 1..n |-> [dir |-> PUZZLES_DIR, base |-> i]] : n \in {0, MaxName} }

\* only the first file's issues are collected
runValidateScript_FirstFileOnly(files) ==
  [filesChecked |-> files,
   issues |-> IF files = << >> THEN << >> ELSE FlatMapIssues(<< Head(files) >>)]

runValidateScript(files) ==
  [filesChecked |-> files, issues |-> FlatMapIssues(files)]

toPuzzleEntry(f) ==
  [filePath |-> f, key |-> PuzzleKey(f.base), date |-> ReadFile(f).date,
   contents |-> ReadFile(f)]

\* ---------------------------------------------------------------- manifest
RECURSIVE InsertByDate(_, _)
InsertByDate(sorted, x) ==
  IF sorted = << >> THEN << x >>
  ELSE IF sorted[Len(sorted)].date <= x.date THEN Append(sorted, x)
  ELSE Append(InsertByDate(SubSeq(sorted, 1, Len(sorted) - 1), x),
              sorted[Len(sorted)])

\* the sort is left out
SortByDate_Unsorted(s) == s

\* Array.prototype.sort with (lhs, rhs) => lhs.date.localeCompare(rhs.date):
\* a stable sort, ascending by date
RECURSIVE SortByDate(_)
SortByDate(s) ==
  IF s = << >> THEN << >>
  ELSE InsertByDate(SortByDate(SubSeq(s, 1, Len(s) - 1)), s[Len(s)])

\* latestPuzzle is an optional field: << >> when omitted, << date >> when set
buildManifest(entries) ==
  LET puzzles == SortByDate([i \in 1..Len(entries) |->
                    [date |-> entries[i].date, path |-> entries[i].key]])
  IN [puzzles |-> puzzles,
      latestPuzzle |-> IF puzzles = << >> THEN << >>
                       ELSE << puzzles[Len(puzzles)].date >>]

\* -------------------------------------------------------------- key lists
RECURSIVE InsertKey(_, _)
InsertKey(sorted, k) ==
  IF sorted = << >> THEN << k >>
  ELSE IF sorted[Len(sorted)].name <= k.name THEN Append(sorted, k)
  ELSE Append(InsertKey(SubSeq(sorted, 1, Len(sorted) - 1), k),
              sorted[Len(sorted)])

\* the keys are sorted in descending order
RECURSIVE SortKeys_Descending(_)
SortKeys_Descending(s) ==
  IF s = << >> THEN << >>
  ELSE LET rest == SortKeys_Descending(SubSeq(s, 1, Len(s) - 1))
           k == s[Len(s)]
       IN SelectSeq(rest, LAMBDA x : x.name > k.name) \o << k >>
          \o SelectSeq(rest, LAMBDA x : x.name <= k.name)

\* Array.prototype.sort() of keys that share the prefix
RECURSIVE SortKeys(_)
SortKeys(s) ==
  IF s = << >> THEN << >>
  ELSE InsertKey(SortKeys(SubSeq(s, 1, Len(s) - 1)), s[Len(s)])

RECURSIVE SetToSeq(_)
SetToSeq(S) ==
  IF S = {} THEN << >>
  ELSE LET k == CHOOSE x \in S : \A y \in S : x.name <= y.name
       IN << k >> \o SetToSeq(S \ {k})

\* Set.prototype.add on the insertion-ordered key set
RECURSIVE AddAll(_, _)
AddAll(keys, page) ==
  IF page = << >> THEN keys
  ELSE AddAll(IF Head(page) \in Range(keys) THEN keys ELSE Append(keys, Head(page)),
              Tail(page))

\* ------------------------------------------------------------ object store
\* One page of ListObjectsV2: the keys under the prefix in ascending order,
\* after the continuation token, at most PageSize of them.  The token the
\* store hands out names the bucket it was issued for and the last key of the
\* page.
ListObjectsV2(objs, bucket, prefix, token) ==
  LET rest == {k \in AllKeys : /\ objs[bucket][k] # NoObject
                               /\ k.prefix = prefix
                               /\ (token = << >> \/ k.name > token[1].after.name)}
      all == SetToSeq(rest)
      page == SubSeq(all, 1, IF Len(all) < PageSize THEN Len(all) ELSE PageSize)
  IN [Contents |-> page,
      IsTruncated |-> Len(all) > PageSize,
      NextContinuationToken |->
        IF page = << >> THEN << >>
        ELSE << [bucket |-> bucket, after |-> page[Len(page)]] >>]

PutObject(objs, bucket, key, body) ==
  [objs EXCEPT ![bucket][key] = body]

buildCopySource(bucket, key) == [bucket |-> bucket, key |-> key]

\* the copy leaves alone a key that holds an object
CopyObject_KeepsExisting(objs, bucket, key, copySource) ==
  IF objs[bucket][key] # NoObject THEN objs
  ELSE [objs EXCEPT ![bucket][key] = objs[copySource.bucket][copySource.key]]

CopyObject(objs, bucket, key, copySource) ==
  [objs EXCEPT ![bucket][key] = objs[copySource.bucket][copySource.key]]

ListCommand(bucket, prefix, token) ==
  [cmd |-> "ListObjectsV2", Bucket |-> bucket, Prefix |-> prefix,
   ContinuationToken |-> token]
PutCommand(bucket, key, body) ==
  [cmd |-> "PutObject", Bucket |-> bucket, Key |-> key, Body |-> body]
CopyCommand(bucket, key, copySource) ==
  [cmd |-> "CopyObject", Bucket |-> bucket, Key |-> key, CopySource |-> copySource]

\* ------------------------------------------------------------------- state
VARIABLES
  objects,   \* objects[bucket][key]: the body stored at the key, or NoObject
  pre,       \* objects as they were when the current run was called
  sent,      \* the commands the client has sent in the current run, in order
  pc,        \* where the current run is suspended
  opts,      \* the options of the current run
  locals,    \* the local variables of the current run
  listing,   \* the listRemoteKeys calls of the current run
  result,    \* the value the run returned
  error,     \* the error the run threw
  runs,      \* number of runs started
  entriesIn, \* argument of a direct buildManifest call
  manifestOut, \* its result
  pages,     \* the pages a paginating store holds for a direct listRemoteKeys call
  planned,   \* history: what the dry run just before the current run reported
  rawPuzzle, \* argument of a direct validatePuzzle call
  context,   \* its validation context
  issues,    \* the issues it returned
  filePath,  \* argument of a direct validateFile call
  lastRun    \* history: the run just before the current run, when the current
             \* run repeats it

vars == << objects, pre, sent, pc, opts, locals, listing, result, error, runs,
           entriesIn, manifestOut, pages, planned, rawPuzzle, context, issues, filePath, lastRun >>

NoOpts == [op |-> "none", env |-> "dev", source |-> "dev", target |-> "prod",
           dryRun |-> FALSE, overwrite |-> FALSE, files |-> << >>]
NoLocals == [entries |-> << >>, missing |-> << >>, puzzlesToCopy |-> << >>,
             skipped |-> << >>, remoteOnly |-> << >>, uploaded |-> << >>, i |-> 1]
NoResult == [kind |-> "none"]
NoError == "none"
NoPlan == [kind |-> "none"]
NoContext == [expectedDate |-> << >>]
NoFile == ""
NoLastRun == [kind |-> "none"]

EmptyBuckets == [b \in Buckets |-> [k \in AllKeys |-> NoObject]]

Init ==
  /\ objects = EmptyBuckets
  /\ pre = EmptyBuckets
  /\ sent = << >>
  /\ pc = "idle"
  /\ opts = NoOpts
  /\ locals = NoLocals
  /\ listing = << >>
  /\ result = NoResult
  /\ error = NoError
  /\ runs = 0
  /\ entriesIn = << >>
  /\ manifestOut = NoResult
  /\ pages = << >>
  /\ planned = NoPlan
  /\ rawPuzzle = Undefined
  /\ context = NoContext
  /\ issues = << >>
  /\ filePath = NoFile
  /\ lastRun = NoLastRun

CanStart == pc \in {"idle", "done", "failed"} /\ runs < MaxRuns

RECURSIVE SeqsUpTo(_, _)
SeqsUpTo(S, n) ==
  IF n = 0 THEN {<< >>}
  ELSE LET shorter == SeqsUpTo(S, n - 1)
       IN shorter \cup {Append(s, x) : s \in shorter, x \in S}

\* options.files: the --file arguments, each resolved by resolveExplicitFiles
FileArgs == SeqsUpTo(LocalFiles, MaxFiles)

\* the files runValidateScript checks: the resolved --file arguments, or the
\* listing of the puzzle directory when no --file is given
FilesToCheck == (FileArgs \ {<< >>}) \cup PuzzleDirListings

\* history of the run that has just ended, kept when the run that starts
\* repeats a non-dry-run upload with the same inputs: the buckets that run
\* found, whether it returned, and the position of the puzzle put that was
\* rejected (0 when none was)
LastRun(o) ==
  IF /\ opts.op = "upload"
     /\ ~opts.dryRun
     /\ o = opts
     /\ \/ pc = "done"
        \/ pc = "failed" /\ error = "rejected"
    THEN [kind |-> "upload", pre |-> pre, returned |-> pc = "done",
          rejectedPut |-> IF pc = "failed" /\ locals.i <= Len(locals.missing)
                            THEN locals.i ELSE 0,
          uploaded |-> locals.uploaded]
    ELSE NoLastRun

Call(o) ==
  /\ runs' = runs + 1
  /\ opts' = o
  /\ pre' = objects
  /\ lastRun' = LastRun(o)
  /\ UNCHANGED << objects, entriesIn, manifestOut, pages,
                  rawPuzzle, context, issues, filePath >>

\* history of the dry run: its inputs, the buckets it saw and the lists it
\* reported
Plan(o, objs, first, skipped, remoteOnly) ==
  [kind |-> "plan", opts |-> o, pre |-> objs, first |-> first,
   skipped |-> skipped, remoteOnly |-> remoteOnly]

\* the report is kept while the run that follows has the same inputs and
\* finds the buckets as the dry run saw them
KeepPlan(o) ==
  IF planned # NoPlan /\ planned.opts = [o EXCEPT !.dryRun = TRUE]
       /\ planned.pre = objects
    THEN planned ELSE NoPlan

Throw(e) ==
  /\ pc' = "failed"
  /\ error' = e
  /\ result' = NoResult

Return(r) ==
  /\ pc' = "done"
  /\ error' = NoError
  /\ result' = r

NewListing(bucket) ==
  [bucket |-> bucket, keys |-> << >>, continuationToken |-> << >>, done |-> FALSE]

\* the loop ends after the first page
listRemoteKeys_FirstPageOnly(l, response) ==
  [l EXCEPT !.keys = AddAll(l.keys, response.Contents),
            !.continuationToken = << >>,
            !.done = TRUE]

\* the keys are pushed to an array: a key listed twice is kept twice
listRemoteKeys_KeepsDuplicates(l, response) ==
  LET token == IF response.IsTruncated THEN response.NextContinuationToken ELSE << >>
  IN [l EXCEPT !.keys = @ \o SelectSeq(response.Contents, LAMBDA key : key # NoKey),
               !.continuationToken = token,
               !.done = (token = << >>)]

\* ------------------------------------------------------- listRemoteKeys
\* one turn of the do/while loop, from the response to the loop condition
listRemoteKeys(l, response) ==
  LET token == IF response.IsTruncated THEN response.NextContinuationToken ELSE << >>
  IN [l EXCEPT !.keys = AddAll(l.keys, SelectSeq(response.Contents,
                                                  LAMBDA key : key # NoKey)),
               !.continuationToken = token,
               !.done = (token = << >>)]

\* the next page is always requested from the bucket of the first listing
ListResponse_NextPageOfFirstBucket(id) ==
  /\ pc = "listing"
  /\ id \in DOMAIN listing
  /\ ~listing[id].done
  /\ LET l == listing[id]
         response == ListObjectsV2(objects, l.bucket, PUZZLE_PREFIX, l.continuationToken)
         next == listRemoteKeys(l, response)
     IN /\ listing' = [listing EXCEPT ![id] = next]
        /\ sent' = IF next.done THEN sent
                   ELSE Append(sent, ListCommand(listing[1].bucket, PUZZLE_PREFIX,
                                                 next.continuationToken))
  /\ UNCHANGED << objects, pre, pc, opts, locals, result, error, runs,
                  entriesIn, manifestOut, pages, planned, rawPuzzle, context, issues, filePath, lastRun >>

ListResponse(id) ==
  /\ pc = "listing"
  /\ id \in DOMAIN listing
  /\ ~listing[id].done
  /\ LET l == listing[id]
         response == ListObjectsV2(objects, l.bucket, PUZZLE_PREFIX, l.continuationToken)
         next == listRemoteKeys(l, response)
     IN /\ listing' = [listing EXCEPT ![id] = next]
        /\ sent' = IF next.done THEN sent
                   ELSE Append(sent, ListCommand(l.bucket, PUZZLE_PREFIX,
                                                 next.continuationToken))
  /\ UNCHANGED << objects, pre, pc, opts, locals, result, error, runs,
                  entriesIn, manifestOut, pages, planned, rawPuzzle, context, issues, filePath, lastRun >>

\* ------------------------------------------------------ runUploadScript
UploadOpts(files, env, dryRun) ==
  [NoOpts EXCEPT !.op = "upload", !.env = env, !.dryRun = dryRun, !.files = files]

Keys(entries) == [i \in 1..Len(entries) |-> entries[i].key]

Missing(entries, remoteKeys) ==
  SelectSeq(entries, LAMBDA entry : entry.key \notin Range(remoteKeys))

AlreadyPresent(entries, remoteKeys) ==
  SelectSeq(entries, LAMBDA entry : entry.key \in Range(remoteKeys))

UploadRemoteOnly(entries, remoteKeys) ==
  SelectSeq(remoteKeys, LAMBDA key : key \notin Range(Keys(entries)))

\* the dry run reports the keys pushed by the put loop, which it skipped
Uploaded_Pushed(dryRun, missing, uploaded) == uploaded

\* dryRun ? missing.map((entry) => entry.key) : uploaded
Uploaded(dryRun, missing, uploaded) ==
  IF dryRun THEN Keys(missing) ELSE uploaded

\* the manifest flag is set whatever dryRun is
UploadResult_ManifestAlways(total, uploaded, skipped, remoteOnly, dryRun) ==
  [kind |-> "upload", total |-> total, uploaded |-> uploaded, skipped |-> skipped,
   remoteOnly |-> remoteOnly, manifestUploaded |-> TRUE, dryRun |-> dryRun]

UploadResult(total, uploaded, skipped, remoteOnly, dryRun) ==
  [kind |-> "upload", total |-> total, uploaded |-> uploaded, skipped |-> skipped,
   remoteOnly |-> remoteOnly, manifestUploaded |-> ~dryRun, dryRun |-> dryRun]

ManifestPut(bucket, entries) ==
  PutCommand(bucket, MANIFEST_KEY, buildManifest(entries))

\* validation reports an issue: throw before any client exists
UploadInvalid ==
  /\ CanStart
  /\ \E files \in FilesToCheck, env \in ContentEnv, dryRun \in BOOLEAN :
    /\ Len(runValidateScript(files).issues) > 0
    /\ Call(UploadOpts(files, env, dryRun))
    /\ Throw("validation")
    /\ planned' = NoPlan
    /\ sent' = << >>
    /\ locals' = NoLocals
    /\ listing' = << >>

\* nothing to check: the no-op result
UploadNothing ==
  /\ CanStart
  /\ \E files \in FilesToCheck, env \in ContentEnv, dryRun \in BOOLEAN :
    /\ Len(runValidateScript(files).issues) = 0
    /\ Len(runValidateScript(files).filesChecked) = 0
    /\ Call(UploadOpts(files, env, dryRun))
    /\ Return([kind |-> "upload", total |-> 0, uploaded |-> << >>,
               skipped |-> << >>, remoteOnly |-> << >>,
               manifestUploaded |-> FALSE, dryRun |-> dryRun])
    /\ planned' = IF dryRun
                    THEN Plan(UploadOpts(files, env, dryRun), objects,
                              << >>, << >>, << >>)
                    ELSE KeepPlan(UploadOpts(files, env, dryRun))
    /\ sent' = << >>
    /\ locals' = NoLocals
    /\ listing' = << >>

\* entries are built and the first page of the bucket's keys is requested
UploadBegin ==
  /\ CanStart
  /\ \E files \in FilesToCheck, env \in ContentEnv, dryRun \in BOOLEAN :
    LET validationResult == runValidateScript(files)
        filesChecked == validationResult.filesChecked
    IN /\ Len(validationResult.issues) = 0
       /\ Len(filesChecked) > 0
       /\ Call(UploadOpts(files, env, dryRun))
       /\ planned' = KeepPlan(UploadOpts(files, env, dryRun))
       /\ locals' = [NoLocals EXCEPT
                       !.entries = [i \in 1..Len(filesChecked) |->
                                      toPuzzleEntry(filesChecked[i])]]
       /\ listing' = << NewListing(BUCKETS[env]) >>
       /\ sent' = << ListCommand(BUCKETS[env], PUZZLE_PREFIX, << >>) >>
       /\ pc' = "listing"
       /\ result' = NoResult
       /\ error' = NoError

\* the listing has returned: partition the entries, then either return the
\* dry-run result or send the first write
UploadPlan ==
  /\ pc = "listing"
  /\ opts.op = "upload"
  /\ listing[1].done
  /\ LET bucket == BUCKETS[opts.env]
         entries == locals.entries
         remoteKeys == listing[1].keys
         missing == Missing(entries, remoteKeys)
         skipped == Keys(AlreadyPresent(entries, remoteKeys))
         remoteOnly == UploadRemoteOnly(entries, remoteKeys)
     IN /\ locals' = [locals EXCEPT !.missing = missing, !.skipped = skipped,
                                    !.remoteOnly = remoteOnly, !.i = 1]
        /\ IF opts.dryRun
             THEN /\ Return(UploadResult(Len(entries),
                                         Uploaded(TRUE, missing, locals.uploaded),
                                         skipped, remoteOnly, TRUE))
                  /\ sent' = sent
                  /\ planned' = Plan(opts, pre,
                                     Uploaded(TRUE, missing, locals.uploaded),
                                     skipped, remoteOnly)
             ELSE /\ pc' = IF missing = << >> THEN "manifest" ELSE "put"
                  /\ sent' = Append(sent,
                       IF missing = << >> THEN ManifestPut(bucket, entries)
                       ELSE PutCommand(bucket, missing[1].key, missing[1].contents))
                  /\ UNCHANGED << result, error, planned >>
  /\ UNCHANGED << objects, pre, opts, listing, runs,
                  entriesIn, manifestOut, pages,
                  rawPuzzle, context, issues, filePath, lastRun >>

\* the put of missing[i] resolved: record it and send the next write
PutResolved ==
  /\ pc = "put"
  /\ LET bucket == BUCKETS[opts.env]
         entry == locals.missing[locals.i]
         last == locals.i = Len(locals.missing)
     IN /\ objects' = PutObject(objects, bucket, entry.key, entry.contents)
        /\ locals' = [locals EXCEPT !.uploaded = Append(@, entry.key), !.i = @ + 1]
        /\ pc' = IF last THEN "manifest" ELSE "put"
        /\ sent' = Append(sent,
             IF last THEN ManifestPut(bucket, locals.entries)
             ELSE PutCommand(bucket, locals.missing[locals.i + 1].key,
                             locals.missing[locals.i + 1].contents))
  /\ UNCHANGED << pre, opts, listing, result, error, runs,
                  entriesIn, manifestOut, pages, planned, rawPuzzle, context, issues, filePath, lastRun >>

\* the upload mirrors the local set: remote-only puzzles are deleted
ManifestPutResolved_Mirror ==
  /\ pc = "manifest"
  /\ opts.op = "upload"
  /\ objects' = [objects EXCEPT ![BUCKETS[opts.env]] =
       [k \in AllKeys |->
          IF k = MANIFEST_KEY THEN buildManifest(locals.entries)
          ELSE IF k \in Range(locals.remoteOnly) THEN NoObject
          ELSE objects[BUCKETS[opts.env]][k]]]
  /\ Return(UploadResult(Len(locals.entries), locals.uploaded, locals.skipped,
                         locals.remoteOnly, FALSE))
  /\ UNCHANGED << pre, sent, opts, locals, listing, runs,
                  entriesIn, manifestOut, pages, planned, rawPuzzle, context, issues, filePath, lastRun >>

\* the manifest put resolved: return
ManifestPutResolved ==
  /\ pc = "manifest"
  /\ opts.op = "upload"
  /\ objects' = PutObject(objects, BUCKETS[opts.env], MANIFEST_KEY,
                          buildManifest(locals.entries))
  /\ Return(UploadResult(Len(locals.entries),
                         Uploaded(FALSE, locals.missing, locals.uploaded),
                         locals.skipped, locals.remoteOnly, FALSE))
  /\ UNCHANGED << pre, sent, opts, locals, listing, runs,
                  entriesIn, manifestOut, pages, planned, rawPuzzle, context, issues, filePath, lastRun >>

\* the manifest is written in a finally block, also after a rejected put
WriteRejected_FinallyManifest ==
  /\ pc \in {"put", "manifest", "copy", "manifestCopy"}
  /\ Throw("rejected")
  /\ IF pc = "put"
       THEN /\ sent' = Append(sent, ManifestPut(BUCKETS[opts.env], locals.entries))
            /\ objects' = PutObject(objects, BUCKETS[opts.env], MANIFEST_KEY,
                                    buildManifest(locals.entries))
       ELSE UNCHANGED << sent, objects >>
  /\ UNCHANGED << pre, opts, locals, listing, runs,
                  entriesIn, manifestOut, pages, planned, rawPuzzle, context, issues, filePath, lastRun >>

\* the store rejects the write in flight: the await throws, nothing is caught
WriteRejected ==
  /\ pc \in {"put", "manifest", "copy", "manifestCopy"}
  /\ Throw("rejected")
  /\ UNCHANGED << objects, pre, sent, opts, locals, listing, runs,
                  entriesIn, manifestOut, pages, planned, rawPuzzle, context, issues, filePath, lastRun >>

\* ----------------------------------------------------- runPromoteScript
PromoteOpts(source, target, dryRun, overwrite) ==
  [NoOpts EXCEPT !.op = "promote", !.source = source, !.target = target,
                 !.dryRun = dryRun, !.overwrite = overwrite]

\* only the first of the keys to copy is copied
PuzzlesToCopy_FirstOnly(sourceList, targetSet, overwrite) ==
  LET all == IF overwrite THEN sourceList
             ELSE SelectSeq(sourceList, LAMBDA key : key \notin targetSet)
  IN SubSeq(all, 1, 1)

\* the overwrite flag is ignored
PuzzlesToCopy_IgnoreOverwrite(sourceList, targetSet, overwrite) ==
  SelectSeq(sourceList, LAMBDA key : key \notin targetSet)

PuzzlesToCopy(sourceList, targetSet, overwrite) ==
  IF overwrite THEN sourceList
  ELSE SelectSeq(sourceList, LAMBDA key : key \notin targetSet)

PromoteSkipped(sourceList, targetSet, overwrite) ==
  IF overwrite THEN << >>
  ELSE SelectSeq(sourceList, LAMBDA key : key \in targetSet)

PromoteRemoteOnly(sourceKeys, targetKeys) ==
  SortKeys(SelectSeq(targetKeys, LAMBDA key : key \notin Range(sourceKeys)))

PromoteResult(copied, skipped, remoteOnly, dryRun, overwrite) ==
  [kind |-> "promote", copied |-> copied, skipped |-> skipped,
   remoteOnly |-> remoteOnly, manifestCopied |-> ~dryRun, dryRun |-> dryRun,
   overwrite |-> overwrite]

PuzzleCopy(source, target, key) ==
  CopyCommand(BUCKETS[target], key, buildCopySource(BUCKETS[source], key))

ManifestCopy(source, target) ==
  CopyCommand(BUCKETS[target], MANIFEST_KEY,
              buildCopySource(BUCKETS[source], MANIFEST_KEY))

\* the environments are compared only after the listings were requested
PromoteSameEnv_ListsFirst ==
  /\ CanStart
  /\ \E source \in ContentEnv, target \in ContentEnv, dryRun \in BOOLEAN,
        overwrite \in BOOLEAN :
    /\ source = target
    /\ Call(PromoteOpts(source, target, dryRun, overwrite))
    /\ Throw("same environment")
    /\ planned' = NoPlan
    /\ sent' = << ListCommand(BUCKETS[source], PUZZLE_PREFIX, << >>),
                  ListCommand(BUCKETS[target], PUZZLE_PREFIX, << >>) >>
    /\ locals' = NoLocals
    /\ listing' = << >>

\* source and target are the same environment: throw before any client exists
PromoteSameEnv ==
  /\ CanStart
  /\ \E source \in ContentEnv, target \in ContentEnv, dryRun \in BOOLEAN,
        overwrite \in BOOLEAN :
    /\ source = target
    /\ Call(PromoteOpts(source, target, dryRun, overwrite))
    /\ Throw("same environment")
    /\ planned' = NoPlan
    /\ sent' = << >>
    /\ locals' = NoLocals
    /\ listing' = << >>

\* Promise.all: the first page of both buckets is requested, source first
PromoteBegin ==
  /\ CanStart
  /\ \E source \in ContentEnv, target \in ContentEnv, dryRun \in BOOLEAN,
        overwrite \in BOOLEAN :
    /\ source # target
    /\ Call(PromoteOpts(source, target, dryRun, overwrite))
    /\ planned' = KeepPlan(PromoteOpts(source, target, dryRun, overwrite))
    /\ locals' = NoLocals
    /\ listing' = << NewListing(BUCKETS[source]), NewListing(BUCKETS[target]) >>
    /\ sent' = << ListCommand(BUCKETS[source], PUZZLE_PREFIX, << >>),
                  ListCommand(BUCKETS[target], PUZZLE_PREFIX, << >>) >>
    /\ pc' = "listing"
    /\ result' = NoResult
    /\ error' = NoError

\* an empty source is not an error: the manifest is copied
PromoteEmptySource_CopiesManifest ==
  /\ pc = "listing"
  /\ opts.op = "promote"
  /\ \A id \in DOMAIN listing : listing[id].done
  /\ Len(listing[1].keys) = 0
  /\ pc' = "manifestCopy"
  /\ sent' = Append(sent, ManifestCopy(opts.source, opts.target))
  /\ UNCHANGED << objects, pre, opts, locals, listing, result, error, runs,
                  entriesIn, manifestOut, pages, planned, rawPuzzle, context, issues, filePath, lastRun >>

\* the source listing is awaited alone: the error does not wait for the
\* target listing
PromoteEmptySource_BeforeTargetListing ==
  /\ pc = "listing"
  /\ opts.op = "promote"
  /\ listing[1].done
  /\ Len(listing[1].keys) = 0
  /\ Throw("empty source")
  /\ UNCHANGED << objects, pre, sent, opts, locals, listing, runs,
                  entriesIn, manifestOut, pages, planned, rawPuzzle, context, issues, filePath, lastRun >>

\* both listings have returned and the source has no puzzle: throw
PromoteEmptySource ==
  /\ pc = "listing"
  /\ opts.op = "promote"
  /\ \A id \in DOMAIN listing : listing[id].done
  /\ Len(listing[1].keys) = 0
  /\ Throw("empty source")
  /\ UNCHANGED << objects, pre, sent, opts, locals, listing, runs,
                  entriesIn, manifestOut, pages, planned, rawPuzzle, context, issues, filePath, lastRun >>

\* the manifest is copied only when some puzzle was copied
PromotePlan_SkipManifest ==
  /\ pc = "listing"
  /\ opts.op = "promote"
  /\ \A id \in DOMAIN listing : listing[id].done
  /\ Len(listing[1].keys) > 0
  /\ LET sourceList == SortKeys(listing[1].keys)
         targetSet == Range(listing[2].keys)
         puzzlesToCopy == PuzzlesToCopy(sourceList, targetSet, opts.overwrite)
         skipped == PromoteSkipped(sourceList, targetSet, opts.overwrite)
         remoteOnly == PromoteRemoteOnly(listing[1].keys, listing[2].keys)
     IN /\ locals' = [locals EXCEPT !.puzzlesToCopy = puzzlesToCopy,
                                    !.skipped = skipped,
                                    !.remoteOnly = remoteOnly, !.i = 1]
        /\ IF opts.dryRun \/ puzzlesToCopy = << >>
             THEN /\ Return(PromoteResult(puzzlesToCopy, skipped, remoteOnly,
                                          opts.dryRun, opts.overwrite))
                  /\ sent' = sent
                  /\ planned' = IF opts.dryRun
                                  THEN Plan(opts, pre, puzzlesToCopy, skipped,
                                            remoteOnly)
                                  ELSE planned
             ELSE /\ pc' = "copy"
                  /\ sent' = Append(sent,
                       PuzzleCopy(opts.source, opts.target, puzzlesToCopy[1]))
                  /\ UNCHANGED << result, error, planned >>
  /\ UNCHANGED << objects, pre, opts, listing, runs,
                  entriesIn, manifestOut, pages,
                  rawPuzzle, context, issues, filePath, lastRun >>

\* both listings have returned: classify the source keys, then either return
\* the dry-run result or send the first copy
PromotePlan ==
  /\ pc = "listing"
  /\ opts.op = "promote"
  /\ \A id \in DOMAIN listing : listing[id].done
  /\ Len(listing[1].keys) > 0
  /\ LET sourceKeys == listing[1].keys
         targetKeys == listing[2].keys
         sourceList == SortKeys(sourceKeys)
         targetSet == Range(targetKeys)
         puzzlesToCopy == PuzzlesToCopy(sourceList, targetSet, opts.overwrite)
         skipped == PromoteSkipped(sourceList, targetSet, opts.overwrite)
         remoteOnly == PromoteRemoteOnly(sourceKeys, targetKeys)
     IN /\ locals' = [locals EXCEPT !.puzzlesToCopy = puzzlesToCopy,
                                    !.skipped = skipped,
                                    !.remoteOnly = remoteOnly, !.i = 1]
        /\ IF opts.dryRun
             THEN /\ Return(PromoteResult(puzzlesToCopy, skipped, remoteOnly,
                                          TRUE, opts.overwrite))
                  /\ sent' = sent
                  /\ planned' = Plan(opts, pre, puzzlesToCopy, skipped, remoteOnly)
             ELSE /\ pc' = IF puzzlesToCopy = << >> THEN "manifestCopy" ELSE "copy"
                  /\ sent' = Append(sent,
                       IF puzzlesToCopy = << >>
                         THEN ManifestCopy(opts.source, opts.target)
                         ELSE PuzzleCopy(opts.source, opts.target, puzzlesToCopy[1]))
                  /\ UNCHANGED << result, error, planned >>
  /\ UNCHANGED << objects, pre, opts, listing, runs,
                  entriesIn, manifestOut, pages,
                  rawPuzzle, context, issues, filePath, lastRun >>

\* the copy of puzzlesToCopy[i] resolved: send the next copy
CopyResolved ==
  /\ pc = "copy"
  /\ LET key == locals.puzzlesToCopy[locals.i]
         last == locals.i = Len(locals.puzzlesToCopy)
     IN /\ objects' = CopyObject(objects, BUCKETS[opts.target], key,
                                 buildCopySource(BUCKETS[opts.source], key))
        /\ locals' = [locals EXCEPT !.i = @ + 1]
        /\ pc' = IF last THEN "manifestCopy" ELSE "copy"
        /\ sent' = Append(sent,
             IF last THEN ManifestCopy(opts.source, opts.target)
             ELSE PuzzleCopy(opts.source, opts.target,
                             locals.puzzlesToCopy[locals.i + 1]))
  /\ UNCHANGED << pre, opts, listing, result, error, runs,
                  entriesIn, manifestOut, pages, planned, rawPuzzle, context, issues, filePath, lastRun >>

\* the manifest copy resolved (the store copies an object that exists; a
\* missing source object is a rejection): return
ManifestCopyResolved ==
  /\ pc = "manifestCopy"
  /\ objects[BUCKETS[opts.source]][MANIFEST_KEY] # NoObject
  /\ objects' = CopyObject(objects, BUCKETS[opts.target], MANIFEST_KEY,
                           buildCopySource(BUCKETS[opts.source], MANIFEST_KEY))
  /\ Return(PromoteResult(locals.puzzlesToCopy, locals.skipped, locals.remoteOnly,
                          FALSE, opts.overwrite))
  /\ UNCHANGED << pre, sent, opts, locals, listing, runs,
                  entriesIn, manifestOut, pages, planned, rawPuzzle, context, issues, filePath, lastRun >>

\* ---------------------------------------------------------- specification
Next ==
  \/ UploadInvalid
  \/ UploadNothing
  \/ UploadBegin
  \/ \E id \in 1..2 : ListResponse(id)
  \/ UploadPlan
  \/ PutResolved
  \/ ManifestPutResolved
  \/ WriteRejected
  \/ PromoteSameEnv
  \/ PromoteBegin
  \/ PromoteEmptySource
  \/ PromotePlan
  \/ CopyResolved
  \/ ManifestCopyResolved

Spec == Init /\ [][Next]_vars

\* ------------------------------------- buildManifest called on any entries
EntryChoices ==
  { [filePath |-> [dir |-> PUZZLES_DIR, base |-> n], key |-> PuzzleKey(n),
     date |-> d, contents |-> [date |-> d, rev |-> PUZZLES_DIR]] :
    n \in 1..MaxName, d \in 1..MaxName }

InitManifest ==
  /\ objects = EmptyBuckets
  /\ pre = EmptyBuckets
  /\ sent = << >>
  /\ pc = "idle"
  /\ opts = NoOpts
  /\ locals = NoLocals
  /\ listing = << >>
  /\ result = NoResult
  /\ error = NoError
  /\ runs = 0
  /\ entriesIn \in SeqsUpTo(EntryChoices, MaxEntries)
  /\ manifestOut = NoResult
  /\ pages = << >>
  /\ planned = NoPlan
  /\ rawPuzzle = Undefined
  /\ context = NoContext
  /\ issues = << >>
  /\ filePath = NoFile
  /\ lastRun = NoLastRun

BuildManifestCall ==
  /\ manifestOut = NoResult
  /\ manifestOut' = buildManifest(entriesIn)
  /\ UNCHANGED << objects, pre, sent, pc, opts, locals, listing, result, error,
                  runs, entriesIn, pages, planned,
                  rawPuzzle, context, issues, filePath, lastRun >>

NextManifest == BuildManifestCall

SpecManifest == InitManifest /\ [][NextManifest]_vars

\* ------------------------------- listRemoteKeys called on a paginating store
\* what one page may hold: keys, a key more than once, entries without a Key
PageChoices == SeqsUpTo(PuzzleKeys \cup {NoKey}, MaxPageLen)

\* the store holds at least one page, possibly an empty one
PageLists == SeqsUpTo(PageChoices, MaxPages) \ {<< >>}

\* the response to a request: the page after the one the token names; every
\* page but the last is reported truncated, with a token for the next one
PageResponse(pgs, bucket, token) ==
  LET i == IF token = << >> THEN 1 ELSE token[1].after + 1
  IN [Contents |-> pgs[i],
      IsTruncated |-> i < Len(pgs),
      NextContinuationToken |->
        IF i < Len(pgs) THEN << [bucket |-> bucket, after |-> i] >> ELSE << >>]

InitListing ==
  /\ objects = EmptyBuckets
  /\ pre = EmptyBuckets
  /\ sent = << >>
  /\ pc = "idle"
  /\ opts = NoOpts
  /\ locals = NoLocals
  /\ listing = << >>
  /\ result = NoResult
  /\ error = NoError
  /\ runs = 0
  /\ entriesIn = << >>
  /\ manifestOut = NoResult
  /\ pages \in PageLists
  /\ planned = NoPlan
  /\ rawPuzzle = Undefined
  /\ context = NoContext
  /\ issues = << >>
  /\ filePath = NoFile
  /\ lastRun = NoLastRun

\* listRemoteKeys(client, bucket, prefix): the first request is sent
ListRemoteKeysCall ==
  /\ pc = "idle"
  /\ \E env \in ContentEnv :
       /\ opts' = [NoOpts EXCEPT !.op = "list", !.env = env]
       /\ listing' = << NewListing(BUCKETS[env]) >>
       /\ sent' = << ListCommand(BUCKETS[env], PUZZLE_PREFIX, << >>) >>
  /\ pc' = "listing"
  /\ UNCHANGED << objects, pre, locals, result, error, runs,
                  entriesIn, manifestOut, pages, planned, rawPuzzle, context, issues, filePath, lastRun >>

\* a page arrives: one turn of the loop, then the next request or the return
ListPageResponse ==
  /\ pc = "listing"
  /\ opts.op = "list"
  /\ LET l == listing[1]
         response == PageResponse(pages, l.bucket, l.continuationToken)
         next == listRemoteKeys(l, response)
     IN /\ listing' = << next >>
        /\ IF next.done
             THEN /\ sent' = sent
                  /\ Return([kind |-> "keys", keys |-> next.keys])
             ELSE /\ sent' = Append(sent, ListCommand(l.bucket, PUZZLE_PREFIX,
                                                      next.continuationToken))
                  /\ UNCHANGED << pc, result, error >>
  /\ UNCHANGED << objects, pre, opts, locals, runs,
                  entriesIn, manifestOut, pages, planned, rawPuzzle, context, issues, filePath, lastRun >>

NextListing ==
  \/ ListRemoteKeysCall
  \/ ListPageResponse

\* every request the client sends is answered
SpecListing == InitListing /\ [][NextListing]_vars /\ WF_vars(NextListing)

\* ------------------------------------ validatePuzzle called on any document
\* The documents: the conforming ones, the conforming ones with one defect,
\* documents with any colors on any number of categories, documents with a
\* value of another type in one place, and documents with two defects.
WordOf(n) == "W" \o CharAt(UpperLetters, n)

WordsOf(i) == [j \in 1..4 |-> Str(WordOf(4 * (i - 1) + j))]

CategoryOf(i, color) ==
  Obj(<< Prop("id", Str("c" \o ToString(i))),
         Prop("title", Str("Title " \o ToString(i))),
         Prop("color", color),
         Prop("words", Arr(WordsOf(i))) >>)

PuzzleOf(date, categories, startGrid) ==
  Obj(<< Prop("date", date), Prop("categories", categories),
         Prop("startGrid", startGrid) >>)

\* value with the property set, appended when it is new
With(value, key, v) ==
  IF \E i \in 1..Len(value.entries) : value.entries[i].key = key
    THEN Obj([i \in 1..Len(value.entries) |->
                IF value.entries[i].key = key THEN Prop(key, v) ELSE value.entries[i]])
    ELSE Obj(Append(value.entries, Prop(key, v)))

Without(value, key) == Obj(SelectSeq(value.entries, LAMBDA e : e.key # key))

WithItem(array, i, v) == Arr([array.items EXCEPT ![i] = v])

GOOD_DATE == "2024-01-01"
OTHER_DATE == "2024-01-02"

ColorPermutations ==
  {p \in [1..4 -> 1..4] : \A i, j \in 1..4 : p[i] = p[j] => i = j}

StartRotations == {0, 1, 7}

StartOrder(k) == [i \in 1..16 |-> Str(WordOf(((i + k - 1) % 16) + 1))]

Conforming(p, k) ==
  PuzzleOf(Str(GOOD_DATE),
           Arr([i \in 1..4 |-> CategoryOf(i, Str(CATEGORY_COLORS[p[i]]))]),
           Arr(StartOrder(k)))

Defects ==
  {"none", "dateOutOfCalendar", "dateMissing", "dateNotString", "dateMalformed",
   "extraRootKey",
   "idMissing", "idDuplicate", "titleBlank", "wordLowercase", "wordPadded",
   "wordRepeated", "startExtra", "startShort", "startRepeated"}

\* the i-th category, undefined when the document has none
CategoryItem(doc, i) ==
  IF Get(doc, "categories").t = "array" /\ i <= Len(Get(doc, "categories").items)
    THEN Get(doc, "categories").items[i]
    ELSE Undefined

\* the edits leave alone a document that lacks the place they change
WithCategory(doc, i, category) ==
  IF CategoryItem(doc, i) = Undefined THEN doc
  ELSE With(doc, "categories", WithItem(Get(doc, "categories"), i, category))

WithWords(doc, i, words) ==
  IF CategoryItem(doc, i).t # "object" THEN doc
  ELSE WithCategory(doc, i, With(CategoryItem(doc, i), "words", Arr(words)))

WithWord(doc, i, j, word) ==
  IF /\ Get(CategoryItem(doc, i), "words").t = "array"
     /\ j <= Len(Get(CategoryItem(doc, i), "words").items)
    THEN WithWords(doc, i, [Get(CategoryItem(doc, i), "words").items EXCEPT ![j] = word])
    ELSE doc

WithStart(doc, k, word) ==
  IF Get(doc, "startGrid").t = "array" /\ k <= Len(Get(doc, "startGrid").items)
    THEN With(doc, "startGrid", WithItem(Get(doc, "startGrid"), k, word))
    ELSE doc

Defective(doc, defect) ==
  CASE defect = "none" -> doc
    [] defect = "dateOutOfCalendar" -> With(doc, "date", Str("2024-13-45"))
    [] defect = "dateMissing" -> Without(doc, "date")
    [] defect = "dateNotString" -> With(doc, "date", Num(20240101))
    [] defect = "dateMalformed" -> With(doc, "date", Str("2024-1-1"))
    [] defect = "extraRootKey" -> With(doc, "author", Str("someone"))
    [] defect = "idMissing" ->
         IF CategoryItem(doc, 2).t # "object" THEN doc
         ELSE WithCategory(doc, 2, Without(CategoryItem(doc, 2), "id"))
    [] defect = "idDuplicate" ->
         IF CategoryItem(doc, 3).t # "object" THEN doc
         ELSE WithCategory(doc, 3, With(CategoryItem(doc, 3), "id", Str("c1")))
    [] defect = "titleBlank" ->
         IF CategoryItem(doc, 4).t # "object" THEN doc
         ELSE WithCategory(doc, 4, With(CategoryItem(doc, 4), "title", Str("  ")))
    [] defect = "wordLowercase" ->
         WithStart(WithWord(doc, 1, 1, Str("wa")), 1, Str("wa"))
    [] defect = "wordPadded" ->
         WithStart(WithWord(doc, 2, 1, Str(" WE")), 5, Str("WE "))
    [] defect = "wordRepeated" -> WithWord(doc, 2, 1, Str("WA"))
    [] defect = "startExtra" -> WithStart(doc, 3, Str("ZZ"))
    [] defect = "startShort" ->
         IF Get(doc, "startGrid").t # "array" THEN doc
         ELSE With(doc, "startGrid", Arr(SubSeq(Get(doc, "startGrid").items, 1, 15)))
    [] defect = "startRepeated" ->
         IF Get(doc, "startGrid").t # "array" THEN doc
         ELSE WithStart(doc, 2, Get(doc, "startGrid").items[1])
    [] defect = "categoriesMissing" -> Without(doc, "categories")
    [] defect = "startMissing" -> Without(doc, "startGrid")
    [] defect = "categoryNull" -> WithCategory(doc, 1, Null)
    [] defect = "fiveWords" ->
         IF Get(CategoryItem(doc, 1), "words").t # "array" THEN doc
         ELSE WithWords(doc, 1,
                Append(Get(CategoryItem(doc, 1), "words").items, Str("wz")))
    [] defect = "wordBlank" -> WithWord(doc, 3, 2, Str("  "))
    [] defect = "wordNotString" -> WithWord(doc, 3, 3, Num(5))
    [] defect = "wordTwice" -> WithWord(doc, 1, 2, Str("WA"))
    [] defect = "wordInThird" -> WithWord(doc, 4, 1, Str("WA"))
    [] defect = "startBlank" -> WithStart(doc, 4, Str(" "))
    [] defect = "startLowercase" -> WithStart(doc, 6, Str("wf"))

Contexts ==
  {NoContext, [expectedDate |-> << GOOD_DATE >>], [expectedDate |-> << OTHER_DATE >>]}

DefectInputs ==
  { [rawPuzzle |-> Defective(Conforming(p, k), defect), context |-> c] :
      p \in ColorPermutations, k \in StartRotations, defect \in Defects,
      c \in Contexts }

\* the colors of the categories of the color documents
CategoryChoices ==
  {Str(CATEGORY_COLORS[i]) : i \in 1..Len(CATEGORY_COLORS)} \cup {Str("red")}

ColorInputs ==
  { [rawPuzzle |->
       PuzzleOf(Str(GOOD_DATE),
                Arr([i \in 1..Len(choice) |-> CategoryOf(i, choice[i])]),
                Arr(StartOrder(0))),
     context |-> NoContext] :
      choice \in UNION {[1..n -> CategoryChoices] : n \in 0..MaxCategories} }

Plain == Conforming([i \in 1..4 |-> i], 0)

OtherValues ==
  {Undefined, Null, Bool(FALSE), Num(1), Str(""), Str(" "), Arr(<< >>), Obj(<< >>)}

CategoryFields == {"id", "title", "color", "words"}

TypeDocuments ==
  {Undefined, Null, Bool(TRUE), Num(7), Str(""), Str("puzzle"), Arr(<< >>),
   Arr(<< Plain >>), Obj(<< >>)}
  \cup {With(Plain, key, v) : key \in ROOT_FIELDS, v \in OtherValues}
  \cup {WithCategory(Plain, i, v) : i \in 1..4, v \in OtherValues}
  \cup {WithCategory(Plain, i, With(CategoryItem(Plain, i), f, v)) :
          i \in 1..4, f \in CategoryFields, v \in OtherValues}
  \cup {WithWord(Plain, i, j, v) : i \in 1..4, j \in 1..4, v \in OtherValues}
  \cup {WithStart(Plain, k, v) : k \in 1..16, v \in OtherValues}

\* the defects that are also put two at a time on one document
JointDefects ==
  Defects \cup {"categoriesMissing", "startMissing", "categoryNull", "fiveWords",
                "wordBlank", "wordNotString", "wordTwice", "wordInThird",
                "startBlank", "startLowercase"}

PairInputs ==
  { [rawPuzzle |-> Defective(Defective(Plain, first), second), context |-> c] :
      first \in JointDefects, second \in JointDefects,
      c \in {NoContext, [expectedDate |-> << GOOD_DATE >>]} }

TypeInputs ==
  { [rawPuzzle |-> doc, context |-> c] :
      doc \in TypeDocuments, c \in {NoContext, [expectedDate |-> << GOOD_DATE >>]} }

ValidateInputs == DefectInputs \cup ColorInputs \cup TypeInputs \cup PairInputs

\* the files of a direct validateFile call: a date in the name, another date,
\* no date, a date inside a longer name, two dates, a date in the directory
\* only, a date after the last dot, and digits that are no date
FilePaths ==
  {"src/puzzles/2024-01-01.json", "src/puzzles/2024-01-02.json",
   "src/testing/puzzles/2024-01-01_broken.json", "src/testing/puzzles/broken.json",
   "src/puzzles/x2024-01-015.json", "src/puzzles/2024-01-02_2024-01-01.json",
   "src/2024-01-02/puzzle.json", "src/puzzles/puzzle.2024-01-02",
   "src/puzzles/2024-1-2.json"}

\* text that JSON.parse rejects
Unparsable == [t |-> "SyntaxError"]

\* what the engine says of the text it rejects
ErrorMessages == {"Unexpected end of JSON input", "Unexpected token } in JSON"}

\* fs.readFileSync(filePath, "utf8") and JSON.parse: a file is given by the
\* value its text parses to, or is unparsable
FileContents ==
  {Defective(Plain, defect) :
     defect \in {"none", "dateMissing", "dateMalformed", "dateOutOfCalendar",
                 "startExtra"}}
  \cup {With(Plain, "date", Str(OTHER_DATE)), Null, Unparsable}

InitValidate ==
  /\ objects = EmptyBuckets
  /\ pre = EmptyBuckets
  /\ sent = << >>
  /\ pc = "idle"
  /\ opts = NoOpts
  /\ locals = NoLocals
  /\ listing = << >>
  /\ result = NoResult
  /\ error = NoError
  /\ runs = 0
  /\ entriesIn = << >>
  /\ manifestOut = NoResult
  /\ pages = << >>
  /\ planned = NoPlan
  /\ \/ \E input \in ValidateInputs :
          /\ rawPuzzle = input.rawPuzzle
          /\ context = input.context
          /\ filePath = NoFile
     \/ \E path \in FilePaths, contents \in FileContents :
          /\ rawPuzzle = contents
          /\ context = NoContext
          /\ filePath = path
  /\ issues = << >>
  /\ lastRun = NoLastRun

Nullish(value) == value.t \in {"null", "undefined"}

\* The validator reads a property of a value it took for a record: of the
\* document, and of each element of a categories array. Reading a property of
\* null or undefined throws a TypeError.
ReadsPropertyOfNullish(document) ==
  \/ isRecord(document) /\ Nullish(document)
  \/ /\ isRecord(document)
     /\ Get(document, "categories").t = "array"
     /\ \E i \in 1..Len(Get(document, "categories").items) :
          /\ isRecord(Get(document, "categories").items[i])
          /\ Nullish(Get(document, "categories").items[i])

\* validatePuzzle(rawPuzzle, context)
ValidatePuzzleCall ==
  /\ pc = "idle"
  /\ filePath = NoFile
  /\ IF ReadsPropertyOfNullish(rawPuzzle)
       THEN /\ Throw("TypeError")
            /\ issues' = issues
       ELSE /\ issues' = validatePuzzle(rawPuzzle, context)
            /\ pc' = "done"
            /\ UNCHANGED << result, error >>
  /\ UNCHANGED << objects, pre, sent, opts, locals, listing, runs,
                  entriesIn, manifestOut, pages, planned, rawPuzzle, context,
                  filePath, lastRun >>

\* validateFile(filePath): the contents are parsed and validated against the
\* date of the file name; whatever is thrown on the way is returned as an issue
ValidateFileCall ==
  /\ pc = "idle"
  /\ filePath # NoFile
  /\ context' = [expectedDate |-> deriveDate(filePath)]
  /\ IF rawPuzzle = Unparsable \/ ReadsPropertyOfNullish(rawPuzzle)
       THEN \E message \in ErrorMessages :
              issues' = << Issue("", "Invalid JSON: " \o message) >>
       ELSE issues' = validatePuzzle(rawPuzzle, context')
  /\ pc' = "done"
  /\ UNCHANGED << objects, pre, sent, opts, locals, listing, result, error, runs,
                  entriesIn, manifestOut, pages, planned, rawPuzzle, filePath,
                  lastRun >>

NextValidate ==
  \/ ValidatePuzzleCall
  \/ ValidateFileCall

SpecValidate == InitValidate /\ [][NextValidate]_vars

\* ================================================================== claims
PuzzleKeysIn(objs, bucket) == {k \in PuzzleKeys : objs[bucket][k] # NoObject}

FileKeys(files) == [i \in 1..Len(files) |-> PuzzleKey(files[i].base)]

IsWrite(c) == c.cmd # "ListObjectsV2"
IsPuzzlePut(c) == c.cmd = "PutObject" /\ c.Key # MANIFEST_KEY
IsManifestPut(c) == c.cmd = "PutObject" /\ c.Key = MANIFEST_KEY
IsPuzzleCopy(c) == c.cmd = "CopyObject" /\ c.Key # MANIFEST_KEY
IsManifestCopy(c) == c.cmd = "CopyObject" /\ c.Key = MANIFEST_KEY

Writes == SelectSeq(sent, IsWrite)
PuzzlePuts == SelectSeq(sent, IsPuzzlePut)
ManifestPuts == SelectSeq(sent, IsManifestPut)
PuzzleCopies == SelectSeq(sent, IsPuzzleCopy)
ManifestCopies == SelectSeq(sent, IsManifestCopy)

UploadBucket == BUCKETS[opts.env]
SourceBucket == BUCKETS[opts.source]
TargetBucket == BUCKETS[opts.target]

UploadReturned == pc = "done" /\ opts.op = "upload"
PromoteReturned == pc = "done" /\ opts.op = "promote"

\* the store after the given writes have been applied to objs, in order
RECURSIVE ApplyWrites(_, _)
ApplyWrites(objs, cmds) ==
  IF cmds = << >> THEN objs
  ELSE LET c == Head(cmds)
           body == IF c.cmd = "PutObject" THEN c.Body
                   ELSE objs[c.CopySource.bucket][c.CopySource.key]
       IN ApplyWrites([objs EXCEPT ![c.Bucket][c.Key] = body], Tail(cmds))

\* C1: when validateFile reports an issue for any file of the requested set,
\* runUploadScript has thrown the validation error, has sent no command at all
\* and has left every bucket as it was, also for the valid files of the batch.
C1_InvalidBatchFailsClosed ==
  (opts.op = "upload" /\ \E i \in 1..Len(opts.files) : validateFile(opts.files[i]) # << >>)
    => /\ pc = "failed"
       /\ error = "validation"
       /\ sent = << >>
       /\ objects = pre

\* a failed batch that holds a valid file next to the broken one, run against
\* a bucket that already holds puzzles
C1_Witness ==
  /\ opts.op = "upload"
  /\ pc = "failed"
  /\ error = "validation"
  /\ Len(opts.files) = 2
  /\ validateFile(opts.files[1]) = << >>
  /\ validateFile(opts.files[2]) # << >>
  /\ PuzzleKeysIn(objects, UploadBucket) # {}

\* C2: a non-dry-run upload of a non-empty validated file list that returned
\* has uploaded = L \ R, skipped = L \cap R and remoteOnly = R \ L, has sent
\* exactly one put per key of L \ R and exactly one manifest put.
C2_UploadPartitionPerKey ==
  (UploadReturned /\ ~opts.dryRun /\ opts.files # << >>) =>
    LET L == Range(FileKeys(opts.files))
        R == PuzzleKeysIn(pre, UploadBucket)
    IN /\ Range(result.uploaded) = L \ R
       /\ Range(result.skipped) = L \cap R
       /\ Range(result.remoteOnly) = R \ L
       /\ \A k \in L \ R :
            Cardinality({i \in 1..Len(sent) : IsPuzzlePut(sent[i]) /\ sent[i].Key = k}) = 1
       /\ Len(PuzzlePuts) = Cardinality(L \ R)
       /\ Len(ManifestPuts) = 1

\* an upload that returned after putting the key of a file named twice, twice
C2_Witness ==
  /\ UploadReturned
  /\ ~opts.dryRun
  /\ Len(opts.files) = 2
  /\ opts.files[1] = opts.files[2]
  /\ Len(PuzzlePuts) = 2
  /\ PuzzlePuts[1].Key = PuzzlePuts[2].Key

\* What the code does instead, per file of the list rather than per key: a
\* non-dry-run upload of a non-empty validated file list returns
\* uploaded = the keys of the files whose key is not in R, in file order and
\* one per file, skipped = the keys of the files whose key is in R, and
\* remoteOnly = R \ L without repetition; the puzzle puts it has sent are
\* exactly the uploaded list, one put per such file, followed by exactly one
\* manifest put.  With an empty validated set it returns empty lists and has
\* sent nothing.
UploadPartitionPerFile ==
  (UploadReturned /\ ~opts.dryRun) =>
    LET keys == FileKeys(opts.files)
        L == Range(keys)
        R == PuzzleKeysIn(pre, UploadBucket)
    IN IF opts.files = << >>
         THEN /\ sent = << >>
              /\ result.uploaded = << >>
              /\ result.skipped = << >>
              /\ result.remoteOnly = << >>
              /\ ~result.manifestUploaded
         ELSE /\ result.uploaded = SelectSeq(keys, LAMBDA k : k \notin R)
              /\ result.skipped = SelectSeq(keys, LAMBDA k : k \in R)
              /\ Range(result.remoteOnly) = R \ L
              /\ Len(result.remoteOnly) = Cardinality(R \ L)
              /\ [i \in 1..Len(PuzzlePuts) |-> PuzzlePuts[i].Key] = result.uploaded
              /\ \A i \in 1..Len(PuzzlePuts) : PuzzlePuts[i].Bucket = UploadBucket
              /\ Len(ManifestPuts) = 1
              /\ IsManifestPut(sent[Len(sent)])
              /\ result.total = Len(opts.files)
              /\ result.manifestUploaded

\* an upload that put one file and skipped another
UploadPartitionPerFile_Witness ==
  /\ UploadReturned
  /\ ~opts.dryRun
  /\ result.uploaded # << >>
  /\ result.skipped # << >>

C4_DryRunNoMutation ==
  (opts.op # "none" /\ opts.dryRun) =>
    /\ \A i \in 1..Len(sent) : sent[i].cmd = "ListObjectsV2"
    /\ objects = pre
    /\ UploadReturned => ~result.manifestUploaded
    /\ PromoteReturned => ~result.manifestCopied

\* a dry-run upload that reports a key it would put
C4_Witness ==
  /\ UploadReturned
  /\ opts.dryRun
  /\ result.uploaded # << >>
  /\ result.skipped # << >>

\* C5: when a put or copy was rejected the run has failed with that error,
\* the rejected write is the last command sent, the manifest objects are as
\* they were, and the buckets hold exactly the writes that resolved before it.
C5_RejectedWriteStops ==
  (pc = "failed" /\ error = "rejected") =>
    /\ sent # << >>
    /\ IsWrite(sent[Len(sent)])
    /\ \A b \in Buckets : objects[b][MANIFEST_KEY] = pre[b][MANIFEST_KEY]
    /\ objects = ApplyWrites(pre, SubSeq(Writes, 1, Len(Writes) - 1))

\* a run that failed at its second write, the first one left in place
C5_Witness ==
  /\ pc = "failed"
  /\ error = "rejected"
  /\ Len(Writes) = 2
  /\ objects # pre

\* C6: no step of any run removes an object from a bucket, and every key a
\* run returns in remoteOnly is present in the run's target bucket.
C6_NeverDeletes ==
  /\ [][\A b \in Buckets, k \in AllKeys :
          objects[b][k] # NoObject => objects'[b][k] # NoObject]_vars
  /\ [](pc = "done" =>
          \A k \in Range(result.remoteOnly) :
            objects[IF opts.op = "upload" THEN UploadBucket ELSE TargetBucket][k]
              # NoObject)

\* a non-dry-run upload that wrote a puzzle and reported a remote-only key
C6_Witness ==
  /\ UploadReturned
  /\ ~opts.dryRun
  /\ result.uploaded # << >>
  /\ result.remoteOnly # << >>

\* C7: an upload sends no put for a puzzle key the bucket held when the run
\* was called, and the object at such a key stays what it was.
C7_ListedKeyNeverPut ==
  opts.op = "upload" =>
    \A k \in PuzzleKeysIn(pre, UploadBucket) :
      /\ objects[UploadBucket][k] = pre[UploadBucket][k]
      /\ \A i \in 1..Len(sent) : ~(sent[i].cmd = "PutObject" /\ sent[i].Key = k)

\* an upload that returned after skipping a file whose text differs from the
\* object stored under its key
C7_Witness ==
  /\ UploadReturned
  /\ ~opts.dryRun
  /\ \E i \in 1..Len(opts.files) :
       LET k == PuzzleKey(opts.files[i].base)
       IN /\ pre[UploadBucket][k] # NoObject
          /\ pre[UploadBucket][k] # ReadFile(opts.files[i])
          /\ objects[UploadBucket][k] = pre[UploadBucket][k]

\* C8: the manifest written by a non-dry-run upload has exactly one
\* {date, path} entry for every validated local document of the run and no
\* other entry.
C8_ManifestOneEntryPerDocument ==
  (UploadReturned /\ ~opts.dryRun /\ opts.files # << >>) =>
    LET m == objects[UploadBucket][MANIFEST_KEY]
        EntryOf(f) == [date |-> ReadFile(f).date, path |-> PuzzleKey(f.base)]
    IN /\ m # NoObject
       /\ \A f \in Range(opts.files) :
            Cardinality({i \in 1..Len(m.puzzles) : m.puzzles[i] = EntryOf(f)}) = 1
       /\ \A i \in 1..Len(m.puzzles) :
            \E f \in Range(opts.files) : m.puzzles[i] = EntryOf(f)

\* a written manifest that lists the path shared by two files of different
\* directories twice
C8_Witness ==
  /\ UploadReturned
  /\ ~opts.dryRun
  /\ Len(opts.files) = 2
  /\ opts.files[1].dir # opts.files[2].dir
  /\ objects[UploadBucket][MANIFEST_KEY] # NoObject
  /\ Len(objects[UploadBucket][MANIFEST_KEY].puzzles) = 2
  /\ objects[UploadBucket][MANIFEST_KEY].puzzles[1].path
       = objects[UploadBucket][MANIFEST_KEY].puzzles[2].path

\* C9: in the manifest buildManifest returns the puzzles are in ascending date
\* order, latestPuzzle is omitted exactly when there is no entry, and
\* otherwise it is the date of the last entry, the greatest date of the input.
C9_ManifestSorted ==
  manifestOut # NoResult =>
    LET p == manifestOut.puzzles
        latest == manifestOut.latestPuzzle
    IN /\ Len(p) = Len(entriesIn)
       /\ \A i \in 1..(Len(p) - 1) : p[i].date <= p[i + 1].date
       /\ (latest = << >>) <=> (entriesIn = << >>)
       /\ entriesIn # << >> =>
            /\ latest = << p[Len(p)].date >>
            /\ \A i \in 1..Len(entriesIn) : entriesIn[i].date <= latest[1]
            /\ \E i \in 1..Len(entriesIn) : entriesIn[i].date = latest[1]

\* a manifest built from entries given in descending date order
C9_Witness ==
  /\ manifestOut # NoResult
  /\ Len(entriesIn) = 3
  /\ entriesIn[1].date > entriesIn[2].date
  /\ entriesIn[2].date = entriesIn[3].date

\* C10: a non-dry-run promote whose puzzle copies have all resolved has sent
\* exactly one copy of the manifest object, from the source bucket to the
\* target bucket, whatever overwrite is and also with no puzzle to copy; it
\* has sent none before that.
C10_ManifestCopiedOnce ==
  (opts.op = "promote" /\ ~opts.dryRun /\ pc \in {"copy", "manifestCopy", "done", "failed"}
     /\ error \in {NoError, "rejected"}) =>
    IF locals.i > Len(locals.puzzlesToCopy)
      THEN /\ Len(ManifestCopies) = 1
           /\ sent[Len(sent)] =
                [cmd |-> "CopyObject", Bucket |-> TargetBucket, Key |-> MANIFEST_KEY,
                 CopySource |-> [bucket |-> SourceBucket, key |-> MANIFEST_KEY]]
      ELSE ManifestCopies = << >>

\* a promote without overwrite that returned with no puzzle to copy
C10_Witness ==
  /\ PromoteReturned
  /\ ~opts.dryRun
  /\ ~opts.overwrite
  /\ result.copied = << >>
  /\ result.skipped # << >>
  /\ result.manifestCopied

\* C11: in a non-dry-run promote the puzzle copies are sent in ascending key
\* order, every write but the last one sent has completed (at most one write
\* is in flight), a copy is sent in the step in which the one before it
\* completes, and the manifest copy is sent only when every puzzle to copy has
\* been copied into the target.
C11_SequentialAscendingCopies ==
  /\ [](  (opts.op = "promote" /\ ~opts.dryRun /\ opts.source # opts.target) =>
          /\ \A i, j \in 1..Len(PuzzleCopies) :
               i < j => PuzzleCopies[i].Key.name < PuzzleCopies[j].Key.name
          /\ pc \in {"copy", "manifestCopy"} => Len(Writes) = locals.i
          /\ pc = "listing" => Writes = << >>
          /\ ManifestCopies # << >> =>
               /\ IsManifestCopy(sent[Len(sent)])
               /\ [i \in 1..Len(PuzzleCopies) |-> PuzzleCopies[i].Key]
                    = locals.puzzlesToCopy
               /\ \A k \in Range(locals.puzzlesToCopy) :
                    objects[TargetBucket][k] = objects[SourceBucket][k] )
  /\ [][ (pc = "copy" /\ Len(sent') > Len(sent)) =>
           /\ Len(sent') = Len(sent) + 1
           /\ objects'[TargetBucket][sent[Len(sent)].Key]
                = objects[SourceBucket][sent[Len(sent)].Key] ]_vars

\* a promote that returned after two puzzle copies
C11_Witness ==
  /\ PromoteReturned
  /\ ~opts.dryRun
  /\ Len(PuzzleCopies) = 2
  /\ objects # pre

\* C12: a promote whose source equals its target has failed with the
\* environment error, has sent no command at all (no listing either), has
\* started no listing and has left the buckets as they were.
C12_SameEnvFailsBeforeListing ==
  (opts.op = "promote" /\ opts.source = opts.target) =>
    /\ pc = "failed"
    /\ error = "same environment"
    /\ sent = << >>
    /\ listing = << >>
    /\ objects = pre

\* a promote from an environment that holds puzzles to itself
C12_Witness ==
  /\ opts.op = "promote"
  /\ opts.source = opts.target
  /\ pc = "failed"
  /\ ~opts.dryRun
  /\ PuzzleKeysIn(objects, SourceBucket) # {}

\* C13: a promote whose source bucket lists no puzzle key never sends a copy,
\* never returns and, once it has stopped, has failed with the empty-source
\* error, whatever the target holds and whatever dryRun and overwrite are.
C13_EmptySourceFailsBeforeCopy ==
  (opts.op = "promote" /\ opts.source # opts.target
     /\ PuzzleKeysIn(pre, SourceBucket) = {}) =>
    /\ \A i \in 1..Len(sent) : sent[i].cmd # "CopyObject"
    /\ pc \in {"listing", "failed"}
    /\ pc = "failed" => error = "empty source"
    /\ objects = pre

\* the failure of a non-dry-run promote with overwrite from an empty source
\* into a target that holds puzzles
C13_Witness ==
  /\ opts.op = "promote"
  /\ pc = "failed"
  /\ error = "empty source"
  /\ opts.overwrite
  /\ ~opts.dryRun
  /\ PuzzleKeysIn(pre, TargetBucket) # {}

\* number of ListObjectsV2 requests that list n keys
PagesOf(n) == IF n = 0 THEN 1 ELSE (n + PageSize - 1) \div PageSize

ListCommandsFor(bucket) ==
  SelectSeq(sent, LAMBDA c : c.cmd = "ListObjectsV2" /\ c.Bucket = bucket)

\* C14 as stated: when either promotion configuration error is raised no
\* remote call of any kind has been sent.
C14_ConfigErrorsBeforeAnyIO ==
  (pc = "failed" /\ error \in {"same environment", "empty source"}) =>
    sent = << >>

\* C14 amended: the same-environment error is raised with no remote call
\* sent; the empty-source error is raised after both listings have run to
\* their last page, with nothing but listing requests sent and the buckets as
\* they were.
C14_ConfigErrorsBeforeAnyWrite ==
  /\ (pc = "failed" /\ error = "same environment") => sent = << >>
  /\ (pc = "failed" /\ error = "empty source") =>
       /\ \A i \in 1..Len(sent) : sent[i].cmd = "ListObjectsV2"
       /\ Len(ListCommandsFor(SourceBucket)) = 1
       /\ Len(ListCommandsFor(TargetBucket))
            = PagesOf(Cardinality(PuzzleKeysIn(pre, TargetBucket)))
       /\ \A id \in DOMAIN listing : listing[id].done
       /\ objects = pre

\* the empty-source error raised after the target was listed in two pages
C14_Witness ==
  /\ pc = "failed"
  /\ error = "empty source"
  /\ Len(ListCommandsFor(TargetBucket)) = 2

\* the lists a returned run reports
ReportedLists(r) ==
  [first |-> IF r.kind = "upload" THEN r.uploaded ELSE r.copied,
   skipped |-> r.skipped, remoteOnly |-> r.remoteOnly]

\* C15: a non-dry-run that returned right after a dry run with the same
\* inputs, which found the buckets in the same state, reports the lists the
\* dry run reported: uploaded (upload) or copied (promote), skipped and
\* remoteOnly.
C15_DryRunReportsSameLists ==
  (pc = "done" /\ ~opts.dryRun /\ planned # NoPlan) =>
    /\ planned.opts = [opts EXCEPT !.dryRun = TRUE]
    /\ planned.pre = pre
    /\ ReportedLists(result)
         = [first |-> planned.first, skipped |-> planned.skipped,
            remoteOnly |-> planned.remoteOnly]

\* an upload that returned what its dry run had reported: a key to put and a
\* key skipped
C15_Witness ==
  /\ UploadReturned
  /\ ~opts.dryRun
  /\ planned # NoPlan
  /\ planned.first # << >>
  /\ planned.skipped # << >>
  /\ objects # pre

\* the keys of all the pages, entries without a Key left out
RECURSIVE KeysOfPages(_)
KeysOfPages(pgs) ==
  IF pgs = << >> THEN {}
  ELSE (Range(Head(pgs)) \ {NoKey}) \cup KeysOfPages(Tail(pgs))

\* C16: listRemoteKeys sends its first request without a token and every
\* further request with the token of the page before, one request per page the
\* store holds and none after the page reported as not truncated; the keys it
\* returns are exactly the union of the keys of all the pages, each once; and
\* it returns.
C16_ListFollowsPagination ==
  /\ []( opts.op = "list" =>
         /\ Len(sent) <= Len(pages)
         /\ \A i \in 1..Len(sent) :
              sent[i] = ListCommand(BUCKETS[opts.env], PUZZLE_PREFIX,
                          IF i = 1 THEN << >>
                          ELSE PageResponse(pages, BUCKETS[opts.env],
                                 sent[i - 1].ContinuationToken).NextContinuationToken)
         /\ pc = "done" =>
              /\ Len(sent) = Len(pages)
              /\ Range(result.keys) = KeysOfPages(pages)
              /\ Len(result.keys) = Cardinality(KeysOfPages(pages)) )
  /\ <>(pc = "done")

\* a listing that returned after three pages, with a key that two pages hold
C16_Witness ==
  /\ opts.op = "list"
  /\ pc = "done"
  /\ Len(pages) = 3
  /\ Len(sent) = 3
  /\ \E i, j \in 1..Len(pages) :
       i # j /\ (Range(pages[i]) \cap Range(pages[j])) \ {NoKey} # {}

\* the token of the j-th page request for a bucket: the last key of the page
\* before
TokenOfPage(objs, bucket, j) ==
  LET keys == SetToSeq(PuzzleKeysIn(objs, bucket))
  IN IF j = 1 \/ (j - 1) * PageSize > Len(keys) THEN << >>
     ELSE << [bucket |-> bucket, after |-> keys[(j - 1) * PageSize]] >>

\* C17: in a promote the first page of the source and of the target are
\* requested before any response; whatever the order in which the pages
\* arrive, every page request carries the token of the previous page of its
\* own bucket, the two listings end with the keys of their own bucket, the
\* lists computed are those of the two key sets, and no copy is sent before
\* both listings have ended.
C17_ConcurrentListings ==
  (opts.op = "promote" /\ opts.source # opts.target) =>
    /\ Len(sent) >= 2
    /\ sent[1] = ListCommand(SourceBucket, PUZZLE_PREFIX, << >>)
    /\ sent[2] = ListCommand(TargetBucket, PUZZLE_PREFIX, << >>)
    /\ \A b \in {SourceBucket, TargetBucket} :
         /\ Len(ListCommandsFor(b)) <= PagesOf(Cardinality(PuzzleKeysIn(pre, b)))
         /\ \A j \in 1..Len(ListCommandsFor(b)) :
              ListCommandsFor(b)[j].ContinuationToken = TokenOfPage(pre, b, j)
    /\ (\A id \in DOMAIN listing : listing[id].done) =>
         /\ Range(listing[1].keys) = PuzzleKeysIn(pre, SourceBucket)
         /\ Range(listing[2].keys) = PuzzleKeysIn(pre, TargetBucket)
    /\ (\E i \in 1..Len(sent) : sent[i].cmd = "CopyObject") =>
         \A id \in DOMAIN listing : listing[id].done
    /\ pc \in {"copy", "manifestCopy", "done"} =>
         LET S == PuzzleKeysIn(pre, SourceBucket)
             T == PuzzleKeysIn(pre, TargetBucket)
         IN /\ locals.puzzlesToCopy = SetToSeq(IF opts.overwrite THEN S ELSE S \ T)
            /\ locals.skipped = SetToSeq(IF opts.overwrite THEN {} ELSE S \cap T)
            /\ locals.remoteOnly = SetToSeq(T \ S)

\* a promote that returned after the second page of the target was requested
\* before the second page of the source
C17_Witness ==
  /\ PromoteReturned
  /\ Len(sent) >= 4
  /\ TokenOfPage(pre, TargetBucket, 2) # << >>
  /\ TokenOfPage(pre, SourceBucket, 2) # << >>
  /\ sent[3] = ListCommand(TargetBucket, PUZZLE_PREFIX, TokenOfPage(pre, TargetBucket, 2))
  /\ sent[4] = ListCommand(SourceBucket, PUZZLE_PREFIX, TokenOfPage(pre, SourceBucket, 2))

\* ------------------------------------------------- claims on validatePuzzle
Validated == pc = "done" /\ opts.op = "none" /\ runs = 0 /\ filePath = NoFile

\* the categories of a document, none when it has no array of them
CategoryList(document) ==
  IF document.t = "object" /\ Get(document, "categories").t = "array"
    THEN Get(document, "categories").items
    ELSE << >>

CategoryWordList(category) ==
  IF category.t = "object" /\ Get(category, "words").t = "array"
    THEN Get(category, "words").items
    ELSE << >>

RECURSIVE PoolFrom(_, _)
PoolFrom(categories, i) ==
  IF i > Len(categories) THEN << >>
  ELSE CategoryWordList(categories[i]) \o PoolFrom(categories, i + 1)

\* every word of every category, in document order
PoolOf(document) == PoolFrom(CategoryList(document), 1)

CleanWord(v) ==
  v.t = "string" /\ Len(v.s) > 0 /\ Trim(v.s) = v.s /\ toUpperCase(v.s) = v.s

\* the number of categories that have the color
Occurrences(document, color) ==
  Cardinality({i \in 1..Len(CategoryList(document)) :
                 /\ CategoryList(document)[i].t = "object"
                 /\ Get(CategoryList(document)[i], "color") = Str(color)})

\* what the sentence asks of the document: four categories, sixteen distinct
\* uppercase trimmed words, one category per color, and a starting order that
\* is a permutation of the words
StatedConditions ==
  /\ rawPuzzle.t = "object"
  /\ Len(CategoryList(rawPuzzle)) = 4
  /\ LET pool == PoolOf(rawPuzzle)
     IN /\ Len(pool) = 16
        /\ \A i \in 1..16 : CleanWord(pool[i])
        /\ \A i, j \in 1..16 : pool[i] = pool[j] => i = j
        /\ Get(rawPuzzle, "startGrid").t = "array"
        /\ Len(Get(rawPuzzle, "startGrid").items) = 16
        /\ Range(Get(rawPuzzle, "startGrid").items) = Range(pool)
  /\ \A color \in Range(CATEGORY_COLORS) : Occurrences(rawPuzzle, color) = 1

\* what the validator asks besides: a date of the form YYYY-MM-DD that is the
\* expected one when one is expected, categories that are objects with a
\* non-blank id of their own, a non-blank title and four words, and no
\* property other than the three root fields
FurtherConditions ==
  /\ Get(rawPuzzle, "date").t = "string"
  /\ DATE_REGEX(Get(rawPuzzle, "date").s)
  /\ \/ context.expectedDate = << >>
     \/ context.expectedDate[1] = ""
     \/ context.expectedDate[1] = Get(rawPuzzle, "date").s
  /\ \A i \in 1..Len(CategoryList(rawPuzzle)) :
       LET category == CategoryList(rawPuzzle)[i]
       IN /\ category.t = "object"
          /\ Get(category, "id").t = "string"
          /\ Len(Trim(Get(category, "id").s)) > 0
          /\ Get(category, "title").t = "string"
          /\ Len(Trim(Get(category, "title").s)) > 0
          /\ Len(CategoryWordList(category)) = 4
          /\ \A j \in 1..Len(CategoryList(rawPuzzle)) :
               Get(CategoryList(rawPuzzle)[j], "id") = Get(category, "id") => i = j
  /\ Range(ObjectKeys(rawPuzzle)) \subseteq ROOT_FIELDS

\* C18 as stated: every document with four categories, sixteen distinct
\* uppercase trimmed words, one category per color and a starting order that is
\* a permutation of the words validates with no issue.
C18_StatedConditionsGiveNoIssue ==
  (Validated /\ StatedConditions) => issues = << >>

\* C18, amended: such a document validates with no issue when, besides, its
\* date has the form YYYY-MM-DD and equals the expected date if there is one,
\* each category is an object with a non-blank id of its own, a non-blank title
\* and four words, and the document has no other property.
C18_ConformingDocumentHasNoIssue ==
  (Validated /\ StatedConditions /\ FurtherConditions) => issues = << >>

\* a conforming document, its colors not in the order of the color list, its
\* starting order not in the order of the categories, its date the expected
\* one, validated with no issue
C18_Witness ==
  /\ Validated
  /\ StatedConditions
  /\ FurtherConditions
  /\ context.expectedDate = << GOOD_DATE >>
  /\ Get(CategoryList(rawPuzzle)[1], "color") # Str(CATEGORY_COLORS[1])
  /\ Get(rawPuzzle, "startGrid").items # PoolOf(rawPuzzle)
  /\ issues = << >>

StartsWith(s, prefix) == Len(s) >= Len(prefix) /\ SubSeq(s, 1, Len(prefix)) = prefix

IsColorCountIssue(issue) == StartsWith(issue.message, "Expected exactly one '")

ColorCountIssuesReturned == SelectSeq(issues, IsColorCountIssue)

ColorsOnce == {color \in Range(CATEGORY_COLORS) : Occurrences(rawPuzzle, color) = 1}

HasCategoriesArray ==
  rawPuzzle.t = "object" /\ Get(rawPuzzle, "categories").t = "array"

\* C19 as stated, of the documents that are objects: the number of color-count
\* issues is 4 minus the number of colors that occur in exactly one category.
C19_ColorCountIssuesOfAnyDocument ==
  (Validated /\ rawPuzzle.t = "object") =>
    Len(ColorCountIssuesReturned) = 4 - Cardinality(ColorsOnce)

\* C19, amended: for every document that is an object with an array of
\* categories, the number of color-count issues is 4 minus the number of colors
\* that are the color of exactly one category, and there is exactly one such
\* issue, naming the color and the count found, for each other color; a document
\* that is not an object or has no array of categories gets no such issue.
C19_ColorCountIssues ==
  Validated =>
    IF HasCategoriesArray
      THEN /\ Len(ColorCountIssuesReturned) = 4 - Cardinality(ColorsOnce)
           /\ \A color \in Range(CATEGORY_COLORS) \ ColorsOnce :
                Cardinality({i \in 1..Len(ColorCountIssuesReturned) :
                   ColorCountIssuesReturned[i] =
                     [field |-> "categories",
                      message |-> "Expected exactly one '" \o color
                                    \o "' category; found "
                                    \o ToString(Occurrences(rawPuzzle, color))
                                    \o "."]}) = 1
      ELSE ColorCountIssuesReturned = << >>

\* four categories, two of them green and none yellow: one issue for green,
\* found 2, and one for yellow, found 0, and no other color-count issue
C19_Witness ==
  /\ Validated
  /\ Len(CategoryList(rawPuzzle)) = 4
  /\ Occurrences(rawPuzzle, "green") = 2
  /\ Occurrences(rawPuzzle, "yellow") = 0
  /\ Range(ColorCountIssuesReturned) =
       {[field |-> "categories",
         message |-> "Expected exactly one 'green' category; found 2."],
        [field |-> "categories",
         message |-> "Expected exactly one 'yellow' category; found 0."]}
  /\ Len(ColorCountIssuesReturned) = 2

ValidateReturnedOrThrew ==
  pc \in {"done", "failed"} /\ opts.op = "none" /\ runs = 0 /\ filePath = NoFile

\* C20: validatePuzzle never throws, whatever the value it is given; a value
\* that is not an object (null, an array, a string, a number, undefined) gets
\* exactly one issue, whose field is the empty string, and an object gets a
\* list of issues.
C20_ValidatePuzzleNeverThrows ==
  ValidateReturnedOrThrew =>
    /\ pc = "done"
    /\ error = NoError
    /\ rawPuzzle.t # "object" => Len(issues) = 1 /\ issues[1].field = ""
    /\ rawPuzzle.t = "object" =>
         \A i \in 1..Len(issues) : DOMAIN issues[i] = {"field", "message"}

\* an array that holds a conforming document, returned with the one root issue
C20_Witness ==
  /\ ValidateReturnedOrThrew
  /\ rawPuzzle.t = "array"
  /\ Len(rawPuzzle.items) = 1
  /\ pc = "done"
  /\ issues = << [field |-> "", message |-> "Puzzle must be an object."] >>

\* the issues of one section: those on the field or on a path under it
InSection(issue, field) ==
  issue.field = field \/ StartsWith(issue.field, field \o "[")

IsRootKeyIssue(issue) == issue.message = "Unexpected property."

DateIssues(list) == SelectSeq(list, LAMBDA issue : InSection(issue, "date"))
CategoriesIssues(list) == SelectSeq(list, LAMBDA issue : InSection(issue, "categories"))
StartingOrderIssues(list) == SelectSeq(list, LAMBDA issue : InSection(issue, "startGrid"))
RootKeyIssues(list) == SelectSeq(list, IsRootKeyIssue)

\* the conforming document with one root field taken from the document under
\* validation: what is reported for it is what that section reports on its own
Alone(field) ==
  IF \E i \in 1..Len(rawPuzzle.entries) : rawPuzzle.entries[i].key = field
    THEN With(Plain, field, Get(rawPuzzle, field))
    ELSE Without(Plain, field)

\* the conforming document with the other properties of the document under
\* validation added
AloneRootKeys ==
  Obj(Plain.entries \o SelectSeq(rawPuzzle.entries, LAMBDA e : e.key \notin ROOT_FIELDS))

\* the three issues of the comparison of the starting order with the pool
IsComparisonIssue(issue) ==
  /\ issue.field = "startGrid"
  /\ \/ StartsWith(issue.message, "startGrid should list ")
     \/ StartsWith(issue.message, "startGrid is missing words: ")
     \/ StartsWith(issue.message, "startGrid includes words that are not in any category: ")

InSectionOrder ==
  issues = DateIssues(issues) \o CategoriesIssues(issues)
             \o StartingOrderIssues(issues) \o RootKeyIssues(issues)

\* C21 as stated: the issues of an object come section by section, date, then
\* categories, then starting order, then root keys, and every issue a section
\* reports on its own, the starting order included, is among them whatever the
\* other sections hold.
C21_NoSectionHidesAnother ==
  (Validated /\ rawPuzzle.t = "object") =>
    /\ InSectionOrder
    /\ Range(DateIssues(validatePuzzle(Alone("date"), context))) \subseteq Range(issues)
    /\ Range(CategoriesIssues(validatePuzzle(Alone("categories"), context)))
         \subseteq Range(issues)
    /\ Range(StartingOrderIssues(validatePuzzle(Alone("startGrid"), context)))
         \subseteq Range(issues)
    /\ Range(RootKeyIssues(validatePuzzle(AloneRootKeys, context))) \subseteq Range(issues)

\* C21, amended: the issues of an object come section by section, date, then
\* categories, then starting order, then root keys; every issue that the date,
\* the categories or the root keys get on their own is among them whatever the
\* other sections hold, and so is every issue of the starting order other than
\* the three of its comparison with the words of the categories.
C21_SectionsConcatenated ==
  (Validated /\ rawPuzzle.t = "object") =>
    /\ InSectionOrder
    /\ Range(DateIssues(validatePuzzle(Alone("date"), context))) \subseteq Range(issues)
    /\ Range(CategoriesIssues(validatePuzzle(Alone("categories"), context)))
         \subseteq Range(issues)
    /\ {issue \in Range(StartingOrderIssues(validatePuzzle(Alone("startGrid"), context))) :
          ~IsComparisonIssue(issue)} \subseteq Range(issues)
    /\ Range(RootKeyIssues(validatePuzzle(AloneRootKeys, context))) \subseteq Range(issues)

\* a document without a date and with a lowercase word in a category and in
\* the starting order: the date issue, then the word's issue in its category,
\* then its issue in the starting order
C21_Witness ==
  /\ Validated
  /\ rawPuzzle.t = "object"
  /\ Get(rawPuzzle, "date") = Undefined
  /\ issues = << [field |-> "date",
                  message |-> "Expected 'date' to be a string in YYYY-MM-DD format."],
                 [field |-> "categories[0].words[0]",
                  message |-> "Word 'wa' should be uppercase."],
                 [field |-> "startGrid[0]",
                  message |-> "Word 'wa' should be uppercase."] >>

\* the words of the i-th category, none when it is no object with a list of
\* words
WordsAt(i) ==
  IF i \in 1..Len(CategoryList(rawPuzzle))
    THEN CategoryWordList(CategoryList(rawPuzzle)[i])
    ELSE << >>

WordPath(i, j) ==
  "categories[" \o ToString(i - 1) \o "].words[" \o ToString(j - 1) \o "]"

HasIssueAt(path) == \E k \in 1..Len(issues) : issues[k].field = path

\* a word that counts as an occurrence: a string that is not blank
IsWord(v) == v.t = "string" /\ Len(Trim(v.s)) > 0

HasUppercaseOnly(text) ==
  \A k \in 1..Len(text) :
    \A l \in 1..Len(LowerLetters) : CharAt(text, k) # CharAt(LowerLetters, l)

HasNoOuterSpace(text) ==
  Len(text) = 0 \/ (CharAt(text, 1) # " " /\ CharAt(text, Len(text)) # " ")

SameWord(v, w) == IsWord(v) /\ IsWord(w) /\ Trim(v.s) = Trim(w.s)

\* the j-th word of the i-th category breaks a word invariant: it is blank,
\* padded or not uppercase, or an earlier word of its category or a word of one
\* of the given earlier categories is the same word
BreaksInvariant(i, j, earlier) ==
  LET word == WordsAt(i)[j]
  IN /\ word.t = "string"
     /\ \/ ~IsWord(word)
        \/ ~HasNoOuterSpace(word.s)
        \/ ~HasUppercaseOnly(word.s)
        \/ \E l \in 1..(j - 1) : SameWord(WordsAt(i)[l], word)
        \/ \E h \in earlier : \E l \in 1..Len(WordsAt(h)) : SameWord(WordsAt(h)[l], word)

FourWordCategories == {i \in 1..Len(CategoryList(rawPuzzle)) : Len(WordsAt(i)) = 4}

\* C22 as stated: every word of every category is checked: a word that breaks
\* a word invariant has an issue at its categories[i].words[j] path (of the
\* occurrences of one word, the later ones break uniqueness).
C22_EveryCategoryWordChecked ==
  Validated =>
    \A i \in 1..Len(CategoryList(rawPuzzle)) : \A j \in 1..Len(WordsAt(i)) :
      BreaksInvariant(i, j, 1..(i - 1)) => HasIssueAt(WordPath(i, j))

\* what the validator does: the words of the categories that have exactly four
\* words are checked: a word that is blank, padded or not uppercase, or the same
\* as an earlier word of its category or as a word of an earlier category of
\* four words, has an issue at its categories[i].words[j] path.
FourWordCategoriesChecked ==
  Validated =>
    \A i \in FourWordCategories : \A j \in 1..4 :
      BreaksInvariant(i, j, {h \in FourWordCategories : h < i})
        => HasIssueAt(WordPath(i, j))

\* a padded word and a blank word, in two categories of four words, each with
\* its issue at its own path
FourWordCategoriesChecked_Witness ==
  /\ Validated
  /\ FourWordCategories = 1..4
  /\ WordsAt(2)[1] = Str(" WE")
  /\ WordsAt(3)[2] = Str("  ")
  /\ [field |-> "categories[1].words[0]",
      message |-> "Word should not contain leading or trailing whitespace."]
       \in Range(issues)
  /\ [field |-> "categories[2].words[1]", message |-> "Word cannot be empty."]
       \in Range(issues)

\* a category of five words, the fifth in lowercase: the one issue of the
\* category is on its list of words, and none is at the path of the word
C22_Witness ==
  /\ Validated
  /\ Len(WordsAt(1)) = 5
  /\ WordsAt(1)[5] = Str("wz")
  /\ [field |-> "categories[0].words",
      message |-> "Each category must supply exactly 4 words (received 5)."]
       \in Range(issues)
  /\ ~HasIssueAt(WordPath(1, 5))
  /\ \A k \in 1..Len(issues) : ~StartsWith(issues[k].field, "categories[0].words[")

\* the words, trimmed, that the given categories hold
TextsIn(cats) ==
  {Trim(WordsAt(i)[l].s) : <<i, l>> \in
     {p \in cats \X (1..(4 + MaxCategories)) :
        p[2] <= Len(WordsAt(p[1])) /\ IsWord(WordsAt(p[1])[p[2]])}}

\* the places of a word in a category
PlacesIn(i, text) ==
  {l \in 1..Len(WordsAt(i)) : IsWord(WordsAt(i)[l]) /\ Trim(WordsAt(i)[l].s) = text}

Least(S) == CHOOSE n \in S : \A m \in S : n <= m

\* there is a cross-category issue for the word in the i-th category, naming
\* the category at index first
CrossIssueIn(i, text, first) ==
  \E l \in PlacesIn(i, text) :
    [field |-> WordPath(i, l),
     message |-> "Word '" \o text \o "' already assigned to category index "
                   \o ToString(first) \o "."] \in Range(issues)

\* the indexes that the cross-category issues for the word in the i-th category
\* name
IndexesNamedIn(i, text) ==
  {first \in 0..(MaxCategories - 1) : CrossIssueIn(i, text, first)}

IntraIssueIn(i, text) ==
  \E l \in PlacesIn(i, text) :
    [field |-> WordPath(i, l),
     message |-> "Duplicate word '" \o text \o "' within category."] \in Range(issues)

\* among the given categories: a word that several hold is reported in each
\* after the first, naming the first and no other, and not in the first; a word
\* that one holds more than once has the intra-category issue there and no
\* cross-category issue
CrossCategoryReports(cats) ==
  \A text \in TextsIn(cats) :
    LET holders == {i \in cats : PlacesIn(i, text) # {}}
        first == Least(holders)
    IN /\ \A i \in holders \ {first} : IndexesNamedIn(i, text) = {first - 1}
       /\ IndexesNamedIn(first, text) = {}
       /\ (holders = {first} /\ Cardinality(PlacesIn(first, text)) > 1)
            => IntraIssueIn(first, text)

\* C23: a word that two or more categories hold is reported at every category
\* after the first that holds it and never at the first, each report naming the
\* index of the first, also at a third occurrence; a word repeated inside one
\* category has the intra-category issue and no cross-category issue.
C23_CrossCategoryWordReported ==
  Validated => CrossCategoryReports(1..Len(CategoryList(rawPuzzle)))

\* the first category has five words, "WA" among them, and the second holds
\* "WA" too: no cross-category issue in the second
C23_Witness ==
  /\ Validated
  /\ Len(WordsAt(1)) = 5
  /\ Len(WordsAt(2)) = 4
  /\ PlacesIn(1, "WA") # {}
  /\ PlacesIn(2, "WA") # {}
  /\ IndexesNamedIn(2, "WA") = {}
  /\ ~HasIssueAt(WordPath(2, 1))

\* what the validator does: the statement holds among the categories that have
\* exactly four words.
CrossCategoryReportsOfFourWordCategories ==
  Validated => CrossCategoryReports(FourWordCategories)

\* "WA" in the first, the second and the fourth category, each of four words:
\* reported in the second and in the fourth, both naming index 0
CrossCategoryReportsOfFourWordCategories_Witness ==
  /\ Validated
  /\ FourWordCategories = 1..4
  /\ {i \in 1..4 : PlacesIn(i, "WA") # {}} = {1, 2, 4}
  /\ IndexesNamedIn(2, "WA") = {0}
  /\ IndexesNamedIn(4, "WA") = {0}
  /\ IndexesNamedIn(1, "WA") = {}

\* the pool the category pass collects: the words, trimmed, of the categories
\* that have exactly four words
Pool == TextsIn(FourWordCategories)

StartEntries ==
  IF rawPuzzle.t = "object" /\ Get(rawPuzzle, "startGrid").t = "array"
    THEN Get(rawPuzzle, "startGrid").items
    ELSE << >>

\* the words, trimmed, of the starting order
StartWords == {Trim(StartEntries[k].s) : k \in {l \in 1..Len(StartEntries) : IsWord(StartEntries[l])}}

StartIssuesWith(prefix) ==
  SelectSeq(issues, LAMBDA issue :
    issue.field = "startGrid" /\ StartsWith(issue.message, prefix))

SizeIssues == StartIssuesWith("startGrid should list ")
MissingIssues == StartIssuesWith("startGrid is missing words: ")
ExtrasIssues == StartIssuesWith("startGrid includes words that are not in any category: ")

\* the k-th entry of the starting order fails a per-entry check
EntryFails(k) ==
  LET entry == StartEntries[k]
  IN \/ ~IsWord(entry)
     \/ ~HasNoOuterSpace(entry.s)
     \/ ~HasUppercaseOnly(entry.s)
     \/ \E l \in 1..(k - 1) : SameWord(StartEntries[l], entry)

\* C24: for a starting order that is a list. When the category pass collected a
\* non-empty pool, a number of unique words other than the pool's, pool words
\* missing from the starting order, and starting-order words outside the pool
\* each give one issue of their own on startGrid, and only then; when the pool
\* is empty none of the three is returned; in both cases every entry that fails
\* a per-entry check has an issue at its startGrid[k] path.
C24_StartingOrderComparedWithPool ==
  (Validated /\ rawPuzzle.t = "object" /\ Get(rawPuzzle, "startGrid").t = "array") =>
    /\ IF Pool # {}
         THEN /\ Len(SizeIssues) = IF Cardinality(StartWords) # Cardinality(Pool) THEN 1 ELSE 0
              /\ SizeIssues # << >> =>
                   SizeIssues[1].message =
                     "startGrid should list " \o ToString(Cardinality(Pool))
                       \o " unique words; found " \o ToString(Cardinality(StartWords)) \o "."
              /\ Len(MissingIssues) = IF Pool \ StartWords # {} THEN 1 ELSE 0
              /\ Len(ExtrasIssues) = IF StartWords \ Pool # {} THEN 1 ELSE 0
         ELSE SizeIssues = << >> /\ MissingIssues = << >> /\ ExtrasIssues = << >>
    /\ \A k \in 1..Len(StartEntries) :
         EntryFails(k) => HasIssueAt("startGrid[" \o ToString(k - 1) \o "]")

\* a starting order of 15 entries, one of them a word of no category, against
\* a pool of 16 words: the three issues of the comparison
C24_Witness ==
  /\ Validated
  /\ Cardinality(Pool) = 16
  /\ Len(StartEntries) = 15
  /\ SizeIssues = << [field |-> "startGrid",
                      message |-> "startGrid should list 16 unique words; found 15."] >>
  /\ MissingIssues = << [field |-> "startGrid",
                         message |-> "startGrid is missing words: WC, WP."] >>
  /\ ExtrasIssues =
       << [field |-> "startGrid",
           message |-> "startGrid includes words that are not in any category: ZZ."] >>

\* ----------------------------------------------------- claims on validateFile
FileValidated == pc = "done" /\ opts.op = "none" /\ runs = 0 /\ filePath # NoFile

\* the name of the file: its last part without the extension
NameOfFile == basename(filePath, extname(filePath))

\* where the name has four digits, a dash, two digits, a dash and two digits
DatePlaces ==
  {i \in 1..Len(NameOfFile) :
     /\ i + 9 <= Len(NameOfFile)
     /\ \A k \in {0, 1, 2, 3, 5, 6, 8, 9} : IsDigit(CharAt(NameOfFile, i + k))
     /\ CharAt(NameOfFile, i + 4) = "-"
     /\ CharAt(NameOfFile, i + 7) = "-"}

DateOfName == SubSeq(NameOfFile, Least(DatePlaces), Least(DatePlaces) + 9)

HasWellFormedDate ==
  /\ rawPuzzle.t = "object"
  /\ Get(rawPuzzle, "date").t = "string"
  /\ DATE_REGEX(Get(rawPuzzle, "date").s)

\* C25: when the name of the file contains a YYYY-MM-DD pattern, the first such
\* date is the expected date of the validation, and a document whose date is a
\* well-formed date other than it has exactly one issue on the field "date",
\* which carries both dates; when the name has no such pattern there is no
\* expected date and a well-formed date has no issue.
C25_ExpectedDateFromFileName ==
  FileValidated =>
    IF DatePlaces # {}
      THEN /\ context.expectedDate = << DateOfName >>
           /\ HasWellFormedDate =>
                DateIssues(issues) =
                  IF Get(rawPuzzle, "date").s = DateOfName THEN << >>
                  ELSE << [field |-> "date",
                           message |-> "Date (" \o Get(rawPuzzle, "date").s
                                         \o ") does not match filename ("
                                         \o DateOfName \o ")."] >>
      ELSE /\ context.expectedDate = << >>
           /\ HasWellFormedDate => DateIssues(issues) = << >>

\* the fixture named for one day that holds the document of another
C25_Witness ==
  /\ FileValidated
  /\ filePath = "src/testing/puzzles/2024-01-01_broken.json"
  /\ context.expectedDate = << "2024-01-01" >>
  /\ issues = << [field |-> "date",
                  message |-> "Date (2024-01-02) does not match filename (2024-01-01)."] >>

\* ------------------------------------------------------ upload, run again
\* the current run is a non-dry-run upload that returned and repeats the run
\* just before it
UploadRepeated == UploadReturned /\ ~opts.dryRun /\ lastRun # NoLastRun

\* the buckets after an upload of the current run's files that starts from objs
\* and has no write rejected: a put for every file whose key objs does not
\* hold, in file order, then the manifest
UnfailedUpload(objs) ==
  LET files == runValidateScript(opts.files).filesChecked
      puts == [i \in 1..Len(files) |->
                 PutCommand(UploadBucket, PuzzleKey(files[i].base), ReadFile(files[i]))]
      missing == SelectSeq(puts, LAMBDA c : objs[UploadBucket][c.Key] = NoObject)
      manifest == PutCommand(UploadBucket, MANIFEST_KEY,
                             buildManifest([i \in 1..Len(files) |-> toPuzzleEntry(files[i])]))
  IN IF files = << >> THEN objs
     ELSE ApplyWrites(objs, Append(missing, manifest))

\* the keys of the current run's files that the bucket did not hold when the
\* run was called
RemainingKeys ==
  Range(FileKeys(runValidateScript(opts.files).filesChecked))
    \ PuzzleKeysIn(pre, UploadBucket)

\* the run that repeats an upload whose k-th puzzle put was rejected skips the
\* keys that upload wrote, puts each remaining key once, writes the manifest and
\* leaves the buckets as an upload with no rejected write leaves them
RetryCompletes ==
  /\ Range(lastRun.uploaded) \subseteq Range(result.skipped)
  /\ {PuzzlePuts[i].Key : i \in 1..Len(PuzzlePuts)} = RemainingKeys
  /\ Len(PuzzlePuts) = Cardinality(RemainingKeys)
  /\ Len(ManifestPuts) = 1
  /\ objects = UnfailedUpload(lastRun.pre)

\* the run that repeats an upload that returned puts no puzzle: its only write
\* is the manifest
RerunWritesManifestOnly ==
  /\ PuzzlePuts = << >>
  /\ Writes = ManifestPuts
  /\ Len(ManifestPuts) <= 1
  /\ objects = UnfailedUpload(lastRun.pre)

\* C26: a non-dry-run upload that repeats an upload whose k-th puzzle put was
\* rejected skips the keys already written, puts exactly the remaining ones,
\* writes the manifest and ends with the buckets of an upload that never
\* failed; one that repeats an upload that returned puts no puzzle and
\* rewrites only the manifest.
C26_UploadSafeToRetry ==
  UploadRepeated =>
    /\ lastRun.rejectedPut > 0 => RetryCompletes
    /\ lastRun.returned => RerunWritesManifestOnly

\* two files of one base name and different contents: the first upload wrote
\* the first file's document and had its second put rejected, and the run that
\* repeats it skips the key, so that the bucket keeps the first document where
\* an upload with no rejected write leaves the second
C26_Witness ==
  /\ UploadRepeated
  /\ lastRun.rejectedPut = 2
  /\ Len(opts.files) = 2
  /\ opts.files[1].base = opts.files[2].base
  /\ opts.files[1].dir # opts.files[2].dir
  /\ PuzzlePuts = << >>
  /\ objects[UploadBucket][PuzzleKey(opts.files[1].base)] = ReadFile(opts.files[1])
  /\ UnfailedUpload(lastRun.pre)[UploadBucket][PuzzleKey(opts.files[1].base)]
       = ReadFile(opts.files[2])

\* the files of the current run have pairwise distinct keys
DistinctFileKeys ==
  LET keys == FileKeys(runValidateScript(opts.files).filesChecked)
  IN \A i, j \in 1..Len(keys) : keys[i] = keys[j] => i = j

\* What holds of the code: the same, for files of pairwise distinct keys.
UploadOfDistinctKeysSafeToRetry ==
  UploadRepeated /\ DistinctFileKeys =>
    /\ lastRun.rejectedPut > 0 => RetryCompletes
    /\ lastRun.returned => RerunWritesManifestOnly

\* the second put of two was rejected and the run that repeats the upload put
\* the second key alone
UploadOfDistinctKeysSafeToRetry_Witness ==
  /\ UploadRepeated
  /\ DistinctFileKeys
  /\ lastRun.rejectedPut = 2
  /\ Len(lastRun.uploaded) = 1
  /\ Len(PuzzlePuts) = 1
  /\ Len(result.skipped) = 1
  /\ result.uploaded # lastRun.uploaded

\* ------------------------------------------------ soundness of the validator
CategoriesOf(doc) == Get(doc, "categories")
StartGridOf(doc) == Get(doc, "startGrid")

\* a string that has a character other than the space
IsFilledString(value) == value.t = "string" /\ Trim(value.s) # ""

\* the category is an object with a filled id and title, one of the four
\* colors and an array of exactly four words
CategoryWellFormed(category) ==
  /\ category.t = "object"
  /\ IsFilledString(Get(category, "id"))
  /\ IsFilledString(Get(category, "title"))
  /\ Get(category, "color").t = "string"
  /\ Get(category, "color").s \in {"yellow", "green", "blue", "purple"}
  /\ Get(category, "words").t = "array"
  /\ Len(Get(category, "words").items) = 4

\* the word is a non-empty string that is trimmed and uppercase
WordWellFormed(word) ==
  /\ word.t = "string"
  /\ word.s # ""
  /\ Trim(word.s) = word.s
  /\ toUpperCase(word.s) = word.s

\* the document is a puzzle: no root key beyond the three, a YYYY-MM-DD date,
\* four well-formed categories of pairwise distinct ids and colors, sixteen
\* well-formed and pairwise distinct words, and a starting order of sixteen
\* entries that is a permutation of the words
PuzzleWellFormed(doc) ==
  LET cats == CategoriesOf(doc).items
      word(i, j) == Get(cats[i], "words").items[j]
      start == StartGridOf(doc).items
  IN /\ Range(ObjectKeys(doc)) \subseteq {"date", "categories", "startGrid"}
     /\ Get(doc, "date").t = "string"
     /\ Len(Get(doc, "date").s) = 10
     /\ \A i \in 1..10 :
          IF i \in {5, 8} THEN CharAt(Get(doc, "date").s, i) = "-"
          ELSE IsDigit(CharAt(Get(doc, "date").s, i))
     /\ CategoriesOf(doc).t = "array"
     /\ Len(cats) = 4
     /\ \A i \in 1..4 : CategoryWellFormed(cats[i])
     /\ \A i, h \in 1..4 :
          i # h => /\ Get(cats[i], "id").s # Get(cats[h], "id").s
                   /\ Get(cats[i], "color").s # Get(cats[h], "color").s
     /\ \A i, j \in 1..4 : WordWellFormed(word(i, j))
     /\ \A i, j, h, l \in 1..4 :
          word(i, j).s = word(h, l).s => i = h /\ j = l
     /\ StartGridOf(doc).t = "array"
     /\ Len(start) = 16
     /\ \A k \in 1..16 : start[k].t = "string"
     /\ \A k, m \in 1..16 : start[k].s = start[m].s => k = m
     /\ {start[k].s : k \in 1..16} = {word(i, j).s : i, j \in 1..4}

\* C27: whenever validatePuzzle returns an empty issue list for an object, the
\* object has no root key beyond the three allowed, a YYYY-MM-DD date string,
\* exactly 4 categories each with a non-empty unique id, a non-empty title, a
\* distinct color of the four and exactly 4 words, 16 pairwise distinct trimmed
\* uppercase words overall, and a starting order of exactly 16 entries that is
\* a permutation of those 16 words.
C27_ValidatorSound ==
  Validated /\ rawPuzzle.t = "object" /\ issues = << >> => PuzzleWellFormed(rawPuzzle)

\* a puzzle whose colors and starting order are not in the order of the
\* fixture has been accepted
C27_Witness ==
  /\ Validated
  /\ rawPuzzle.t = "object"
  /\ issues = << >>
  /\ PuzzleWellFormed(rawPuzzle)
  /\ Get(CategoriesOf(rawPuzzle).items[1], "color").s = "purple"
  /\ StartGridOf(rawPuzzle).items[1].s # Get(CategoriesOf(rawPuzzle).items[1], "words").items[1].s
  /\ context.expectedDate = << Get(rawPuzzle, "date").s >>

\* ---------------------------------------------- the manifest and its bucket
\* the paths the manifest object of the bucket lists
ManifestPaths(objs, bucket) ==
  IF objs[bucket][MANIFEST_KEY] = NoObject THEN {}
  ELSE {objs[bucket][MANIFEST_KEY].puzzles[i].path :
          i \in 1..Len(objs[bucket][MANIFEST_KEY].puzzles)}

\* C28: in every state reachable from empty buckets by upload and promote
\* runs, dry or not, with any flags and a write rejected at any point, every
\* path the manifest object of a bucket lists is a puzzle key that exists in
\* that bucket.
C28_ManifestReferentialIntegrity ==
  \A bucket \in Buckets : ManifestPaths(objects, bucket) \subseteq PuzzleKeysIn(objects, bucket)

\* a promote has had a copy rejected after an upload to its target: the target
\* holds a manifest of its own and a puzzle that manifest does not list
C28_Witness ==
  /\ pc = "failed"
  /\ error = "rejected"
  /\ opts.op = "promote"
  /\ ManifestPaths(objects, TargetBucket) # {}
  /\ ManifestPaths(objects, TargetBucket) # PuzzleKeysIn(objects, TargetBucket)
  /\ ManifestPaths(objects, SourceBucket) # ManifestPaths(objects, TargetBucket)

\* --------------------------------------------------- what a promote leaves
PromoteSucceeded == PromoteReturned /\ ~opts.dryRun

\* C29: after a non-dry-run promote that returned, every puzzle key of the
\* source bucket exists in the target bucket and the target's manifest object
\* is a copy of the source's manifest object; with overwrite every source
\* puzzle key holds the source's content in the target, and without overwrite
\* a key that the target already held keeps the content it had.
C29_PromotePostcondition ==
  PromoteSucceeded =>
    /\ PuzzleKeysIn(pre, SourceBucket) \subseteq PuzzleKeysIn(objects, TargetBucket)
    /\ pre[SourceBucket][MANIFEST_KEY] # NoObject
    /\ objects[TargetBucket][MANIFEST_KEY] = pre[SourceBucket][MANIFEST_KEY]
    /\ objects[SourceBucket] = pre[SourceBucket]
    /\ opts.overwrite =>
         \A key \in PuzzleKeysIn(pre, SourceBucket) :
           objects[TargetBucket][key] = pre[SourceBucket][key]
    /\ ~opts.overwrite =>
         \A key \in PuzzleKeysIn(pre, TargetBucket) :
           objects[TargetBucket][key] = pre[TargetBucket][key]

\* the target held one of the source's keys with another document and a
\* manifest of its own: without overwrite the promote copied the other key and
\* the manifest, and the key kept the target's document
C29_Witness ==
  /\ PromoteSucceeded
  /\ ~opts.overwrite
  /\ Len(result.copied) = 1
  /\ Len(result.skipped) = 1
  /\ pre[TargetBucket][MANIFEST_KEY] # NoObject
  /\ pre[TargetBucket][MANIFEST_KEY] # pre[SourceBucket][MANIFEST_KEY]
  /\ objects[TargetBucket][result.skipped[1]] # objects[SourceBucket][result.skipped[1]]

\* ------------------------------------------------- one put per key in a run
\* the command puts no key that an earlier command of the list has put
NoKeyTwice(cmds) ==
  \A i, j \in 1..Len(cmds) : cmds[i].Key = cmds[j].Key => i = j

\* the manifest lists every path once at most
NoPathTwice(manifest) ==
  \A i, j \in 1..Len(manifest.puzzles) :
    manifest.puzzles[i].path = manifest.puzzles[j].path => i = j

OnePutPerKey ==
  /\ NoKeyTwice(PuzzlePuts)
  /\ \A m \in 1..Len(ManifestPuts) : NoPathTwice(ManifestPuts[m].Body)

\* C30: within one upload run no puzzle key is put more than once and the
\* manifest the run writes lists each path at most once, for every list of
\* input paths, the same file named twice and two files of one base name in
\* different directories included.
C30_UploadOnePutPerKey ==
  opts.op = "upload" => OnePutPerKey

\* two files of one base name in two directories: the run has put the key
\* twice, with a different document each time, and is sending a manifest that
\* lists the path twice
C30_Witness ==
  /\ opts.op = "upload"
  /\ pc = "manifest"
  /\ Len(opts.files) = 2
  /\ opts.files[1].dir # opts.files[2].dir
  /\ Len(PuzzlePuts) = 2
  /\ PuzzlePuts[1].Key = PuzzlePuts[2].Key
  /\ PuzzlePuts[1].Body # PuzzlePuts[2].Body
  /\ ~NoPathTwice(ManifestPuts[1].Body)

\* What holds of the code: the same, for files of pairwise distinct keys.
UploadOfDistinctKeysOnePutPerKey ==
  opts.op = "upload" /\ DistinctFileKeys => OnePutPerKey

\* two files of two keys, both put, and the manifest of the two paths sent
UploadOfDistinctKeysOnePutPerKey_Witness ==
  /\ opts.op = "upload"
  /\ pc = "manifest"
  /\ DistinctFileKeys
  /\ Len(PuzzlePuts) = 2
  /\ Len(ManifestPuts[1].Body.puzzles) = 2
====
